---- MODULE Spec2Model ----
(***************************************************************************)
(* Model of Chester's model-selection and inference layer:                 *)
(*   modelManager.js  (src/unnamed/part_006)  the ranked-model cache       *)
(*   llm.js           (src/unnamed/part_005)  the chat() waterfall         *)
(* of its usage store and of its /daily command:                           *)
(*   analytics.js     (src/__tests__/utils.test.js, from line 420)         *)
(*   commands/daily.js (src/unnamed/part_000)                              *)
(* JavaScript runs one job at a time; every action below is one such job   *)
(* (the synchronous part of a call up to its first await, or the           *)
(* continuation that runs when an awaited promise settles).                *)
(***************************************************************************)
EXTENDS Integers, Sequences, FiniteSets, TLC

\* ------------------------------------------------------------------------
\* Bounds of the model
\* ------------------------------------------------------------------------

\* Calls made in one run; they may overlap.  Each call is made by its own
\* caller, and the callers are numbered in the order of their calls.
NumProcs == 2
Procs == 1..NumProcs
\* A call starts at most one refresh operation.
RefreshIds == 1..NumProcs

\* ------------------------------------------------------------------------
\* Program constants
\* ------------------------------------------------------------------------

MAX_MODELS == 5
CACHE_TTL_MS == 24 * 60 * 60 * 1000
DEFAULT_FALLBACK_MODEL == "mistralai/mistral-7b-instruct:free"

\* A run starts at StartTime and covers one TTL: the clock advances once, by
\* one TTL, so that a record that is fresh when read expires later in the run.
TickMs == CACHE_TTL_MS
StartTime == 3 * CACHE_TTL_MS
LastTime == StartTime + CACHE_TTL_MS

\* ------------------------------------------------------------------------
\* JavaScript values held in the cache file's "models" array
\* ------------------------------------------------------------------------

Str(s) == [t |-> "string", v |-> s]
NullValue == [t |-> "null", v |-> ""]

MODEL_A == "vendor/model-a"
MODEL_B == "vendor/model-b"
MODEL_C == "vendor/model-c"
MODEL_D == "vendor/model-d"
MODEL_E == "vendor/model-e"
MODEL_F == "vendor/model-f"
MODEL_G == "vendor/model-g"

\* String.prototype.localeCompare on the identifiers of the model: their
\* position in lexical order.
LexOrder ==
    <<DEFAULT_FALLBACK_MODEL, "vendor/image", "vendor/mixed", MODEL_A, MODEL_B,
      MODEL_C, MODEL_D, MODEL_E, MODEL_F, MODEL_G, "vendor/no-modality",
      "vendor/no-price", "vendor/paid">>

LexRank(id) == CHOOSE i \in 1..Len(LexOrder) : LexOrder[i] = id

localeCompare(a, b) ==
    IF LexRank(a) < LexRank(b) THEN -1
    ELSE IF LexRank(a) > LexRank(b) THEN 1 ELSE 0

\* ------------------------------------------------------------------------
\* Sequence helpers
\* ------------------------------------------------------------------------

Range(s) == {s[i] : i \in 1..Len(s)}

RECURSIVE SeqFilterFirst(_, _)
\* [...new Set(s)]: the elements of s in order of first occurrence.
SeqFilterFirst(s, seen) ==
    IF s = <<>> THEN <<>>
    ELSE IF Head(s) \in seen THEN SeqFilterFirst(Tail(s), seen)
    ELSE <<Head(s)>> \o SeqFilterFirst(Tail(s), seen \cup {Head(s)})

SetDedup(s) == SeqFilterFirst(s, {})

Slice(s, n) == IF Len(s) <= n THEN s ELSE SubSeq(s, 1, n)

\* ------------------------------------------------------------------------
\* Model descriptors returned by the catalog.  An optional field is a
\* sequence: <<>> when absent, <<x>> when present.
\* ------------------------------------------------------------------------

Desc(id, created, ctx, prompt, completion, mods) ==
    [id |-> id, created |-> created, context_length |-> ctx,
     prompt |-> prompt, completion |-> completion, output_modalities |-> mods]

\* parseFloat on the pricing strings the catalog uses, in thousandths;
\* -1 stands for NaN (absent field or non-numeric text).
parseFloat(field) ==
    IF field = <<>> THEN -1
    ELSE IF field[1] \in {"0", "0.0"} THEN 0
    ELSE IF field[1] = "0.001" THEN 1
    ELSE IF field[1] = "0.002" THEN 2
    ELSE -1

isFreeModel(m) == parseFloat(m.prompt) = 0 /\ parseFloat(m.completion) = 0

isTextOnly_someText(m) ==
    \E i \in 1..Len(m.output_modalities) : m.output_modalities[i] = "text"

isTextOnly(m) ==
    /\ Len(m.output_modalities) > 0
    /\ \A i \in 1..Len(m.output_modalities) : m.output_modalities[i] = "text"

RECURSIVE rankFilter_noSeen(_, _)
rankFilter_noSeen(models, seen) ==
    IF models = <<>> THEN <<>>
    ELSE LET m == Head(models)
             keep == m.id # "" /\ isFreeModel(m) /\ isTextOnly(m)
         IN  IF keep THEN <<m>> \o rankFilter_noSeen(Tail(models), seen)
             ELSE rankFilter_noSeen(Tail(models), seen)

RECURSIVE rankFilter(_, _)
\* The filter callback of rankModels, with its `seen` set.
rankFilter(models, seen) ==
    IF models = <<>> THEN <<>>
    ELSE LET m == Head(models)
             keep == /\ m.id # ""
                     /\ isFreeModel(m)
                     /\ isTextOnly(m)
                     /\ m.id \notin seen
         IN  IF keep THEN <<m>> \o rankFilter(Tail(models), seen \cup {m.id})
             ELSE rankFilter(Tail(models), seen)

OrZero(opt) == IF opt = <<>> THEN 0 ELSE opt[1]

\* The sort comparator of rankModels: negative when a sorts first.  When both
\* context lengths are absent, Infinity - Infinity is NaN, NaN !== 0 holds and
\* NaN is returned, which Array.prototype.sort treats as +0.
rankCompare(a, b, rpIds) ==
    LET rpDiff == (IF b.id \in rpIds THEN 1 ELSE 0) - (IF a.id \in rpIds THEN 1 ELSE 0)
        createdDiff == OrZero(b.created) - OrZero(a.created)
    IN  IF rpDiff # 0 THEN rpDiff
        ELSE IF createdDiff # 0 THEN createdDiff
        ELSE IF a.context_length = <<>> /\ b.context_length = <<>> THEN 0
        ELSE IF a.context_length = <<>> THEN 1
        ELSE IF b.context_length = <<>> THEN -1
        ELSE IF a.context_length[1] # b.context_length[1]
             THEN a.context_length[1] - b.context_length[1]
        ELSE localeCompare(a.id, b.id)

RECURSIVE InsertSorted(_, _, _)
\* x placed after every element it does not sort strictly before (stable).
InsertSorted(sorted, x, rpIds) ==
    IF sorted = <<>> THEN <<x>>
    ELSE LET last == sorted[Len(sorted)]
         IN  IF rankCompare(x, last, rpIds) < 0
             THEN InsertSorted(SubSeq(sorted, 1, Len(sorted) - 1), x, rpIds) \o <<last>>
             ELSE sorted \o <<x>>

RECURSIVE StableSort(_, _)
\* Array.prototype.sort (stable) with rankCompare.
StableSort(s, rpIds) ==
    IF s = <<>> THEN <<>>
    ELSE InsertSorted(StableSort(SubSeq(s, 1, Len(s) - 1), rpIds), s[Len(s)], rpIds)

rankModels(models, rpIds) ==
    LET kept == Slice(StableSort(rankFilter(models, {}), rpIds), MAX_MODELS)
    IN  [i \in 1..Len(kept) |-> Str(kept[i].id)]

\* ------------------------------------------------------------------------
\* The cache file and its validation
\* ------------------------------------------------------------------------

\* What a path of the file system can hold: nothing, text that is not JSON,
\* or a JSON object with the fields isCacheValid looks at.
NoFile == [kind |-> "missing", fetchedAtIsNumber |-> FALSE, fetchedAt |-> 0,
           modelsIsArray |-> FALSE, models |-> <<>>]
Unparsable == [NoFile EXCEPT !.kind = "unparsable"]
\* The beginning of a JSON text, as a write that stopped half-way leaves it.
Partial == [NoFile EXCEPT !.kind = "partial"]
NullCache == [NoFile EXCEPT !.kind = "null"]

Record(fetchedAt, models) ==
    [kind |-> "json", fetchedAtIsNumber |-> TRUE, fetchedAt |-> fetchedAt,
     modelsIsArray |-> TRUE, models |-> models]

\* readFileSync + JSON.parse; a missing file or a parse error gives null.
readCache(file) == IF file.kind = "json" THEN file ELSE NullCache

\* Variants of isCacheValid: without the check of the entries, without the
\* expiry test, and with the expiry comparison turned round.
isCacheValid_noEntryCheck(cache, t) ==
    /\ cache.kind # "null"
    /\ cache.fetchedAtIsNumber
    /\ cache.modelsIsArray /\ Len(cache.models) # 0
    /\ t - cache.fetchedAt < CACHE_TTL_MS

isCacheValid_noExpiry(cache, t) ==
    /\ cache.kind # "null"
    /\ cache.fetchedAtIsNumber
    /\ cache.modelsIsArray /\ Len(cache.models) # 0
    /\ \A i \in 1..Len(cache.models) :
          cache.models[i].t = "string" /\ cache.models[i].v # ""

isCacheValid_expiryOnly(cache, t) ==
    /\ cache # NullCache
    /\ t - cache.fetchedAt < CACHE_TTL_MS

isCacheValid_inverted(cache, t) ==
    /\ cache.kind # "null"
    /\ cache.fetchedAtIsNumber
    /\ cache.modelsIsArray /\ Len(cache.models) # 0
    /\ \A i \in 1..Len(cache.models) :
          cache.models[i].t = "string" /\ cache.models[i].v # ""
    /\ t - cache.fetchedAt > CACHE_TTL_MS

\* isCacheValid(cache) evaluated at Date.now() = t.
isCacheValid(cache, t) ==
    /\ cache.kind # "null"
    /\ cache.fetchedAtIsNumber
    /\ cache.modelsIsArray /\ Len(cache.models) # 0
    /\ \A i \in 1..Len(cache.models) :
          cache.models[i].t = "string" /\ cache.models[i].v # ""
    /\ t - cache.fetchedAt < CACHE_TTL_MS

\* ------------------------------------------------------------------------
\* Inputs of the environment
\* ------------------------------------------------------------------------

D_A == Desc(MODEL_A, <<2>>, <<4096>>, <<"0">>, <<"0">>, <<"text">>)
D_B == Desc(MODEL_B, <<1>>, <<8192>>, <<"0">>, <<"0">>, <<"text">>)
D_PAID == Desc("vendor/paid", <<3>>, <<8192>>, <<"0.001">>, <<"0.002">>, <<"text">>)

\* Descriptors the ranking is exercised with: ties on every level of the
\* comparator, absent optional fields, a second copy of an identifier, and
\* one descriptor for each way of failing the filter.
D_C == Desc(MODEL_C, <<2>>, <<8192>>, <<"0">>, <<"0">>, <<"text">>)
D_D == Desc(MODEL_D, <<2>>, <<4096>>, <<"0.0">>, <<"0">>, <<"text">>)
D_E == Desc(MODEL_E, <<2>>, <<>>, <<"0">>, <<"0">>, <<"text">>)
D_F == Desc(MODEL_F, <<2>>, <<>>, <<"0">>, <<"0">>, <<"text">>)
D_G == Desc(MODEL_G, <<>>, <<4096>>, <<"0">>, <<"0">>, <<"text", "text">>)
D_A_PAID == Desc(MODEL_A, <<3>>, <<4096>>, <<"0.001">>, <<"0">>, <<"text">>)
D_NOPRICE == Desc("vendor/no-price", <<3>>, <<4096>>, <<>>, <<"0">>, <<"text">>)
D_IMG == Desc("vendor/image", <<3>>, <<4096>>, <<"0">>, <<"0">>, <<"image">>)
D_MIX == Desc("vendor/mixed", <<3>>, <<4096>>, <<"0">>, <<"0">>, <<"text", "image">>)
D_NOMOD == Desc("vendor/no-modality", <<3>>, <<4096>>, <<"0">>, <<"0">>, <<>>)
D_NOID == Desc("", <<3>>, <<4096>>, <<"0">>, <<"0">>, <<"text">>)

RankPool ==
    {D_A, D_B, D_C, D_D, D_E, D_F, D_G, D_A_PAID, D_PAID, D_NOPRICE, D_IMG,
     D_MIX, D_NOMOD, D_NOID}

\* The lists handed to the ranking: what the category request returned, and
\* what the unfiltered request returned, which is a few descriptors of the
\* pool before or after a fixed run of descriptors.
MaxExtra == 2

RankBases == {<<>>, <<D_G, D_B, D_C, D_E, D_D>>}

RankExtras ==
    UNION {[1..n -> RankPool] : n \in 0..MaxExtra}

RankInputs ==
    {[roleplayRaw |-> rp, allRaw |-> all] :
        rp \in {<<>>, <<D_B>>, <<D_G>>, <<D_PAID>>, <<D_A_PAID>>},
        all \in {x \o b : x \in RankExtras, b \in RankBases}
               \cup {b \o x : x \in RankExtras, b \in RankBases}}

NoFetch == [roleplayRaw |-> <<>>, allRaw |-> <<>>]
NotRanked == [done |-> FALSE, ranked |-> <<>>]

\* Payloads the catalog may answer the category request and the unfiltered
\* request with.
RoleplayCatalogs == {<<D_B>>}
AllCatalogs == {<<D_PAID>>, <<D_A, D_B, D_A>>}

\* A record found on disk at start is either one millisecond younger than the
\* TTL or exactly as old as the TTL.
FreshAtStart == StartTime - CACHE_TTL_MS + 1
ExpiredAtStart == StartTime - CACHE_TTL_MS

FreshRecord == Record(FreshAtStart, <<Str(DEFAULT_FALLBACK_MODEL), Str(MODEL_A)>>)
ExpiredRecord == Record(ExpiredAtStart, <<Str(MODEL_A)>>)

\* Records no refresh of this program wrote: an identifier twice, and more
\* entries than MAX_MODELS.
RepeatingRecord == Record(FreshAtStart, <<Str(MODEL_A), Str(MODEL_B), Str(MODEL_A)>>)
LongRecord ==
    Record(FreshAtStart, <<Str(DEFAULT_FALLBACK_MODEL), Str(MODEL_A), Str(MODEL_B),
                           Str(MODEL_C), Str(MODEL_D), Str(MODEL_E)>>)

InitialFiles ==
    {NoFile, Unparsable, FreshRecord, ExpiredRecord,
     [Record(FreshAtStart, <<Str(MODEL_A)>>) EXCEPT !.fetchedAtIsNumber = FALSE],
     [Record(FreshAtStart, <<>>) EXCEPT !.modelsIsArray = FALSE],
     Record(FreshAtStart, <<>>),
     Record(FreshAtStart, <<Str(MODEL_A), Str("")>>),
     Record(FreshAtStart, <<NullValue, Str(MODEL_A)>>)}

\* ------------------------------------------------------------------------
\* State
\* ------------------------------------------------------------------------

VARIABLES
    apiKeySet,        \* process.env.OPENROUTER_API_KEY is set
    now,              \* Date.now()
    cacheFile,        \* content of CACHE_FILE
    tmpFile,          \* content of CACHE_FILE.tmp
    memoryCache,      \* _memoryCache: <<>> for null, <<list>> when populated
    mirrorSrc,        \* history: where the mirror's list came from
    refreshInFlight,  \* _refreshInFlight: 0 for null, else the refresh operation
    refreshes,        \* the refresh operations started so far, by id
    proc,             \* the callers
    net,              \* history: catalog requests sent, by kind
    fetched,          \* roleplayRaw and allRaw of a refresh taken on its own
    rankedOut,        \* ranked, what rankModels made of them
    stats,            \* analytics.js: _stats
    persistTimer,     \* _persistTimer: 0 for null, else the handle of a timeout
    timeouts,         \* the timeouts set and neither fired nor cleared
    initialized,      \* _initialized
    elapsed,          \* milliseconds since the process started
    dir,              \* the inodes of ANALYTICS_FILE and ANALYTICS_FILE.tmp
    persists,         \* the runs of _persistNow, in the order they started
    hist,             \* history of the analytics store
    dailyFile,        \* commands/daily.js: content of daily_list.json
    execs             \* the executions of /daily

vars == <<apiKeySet, now, cacheFile, tmpFile, memoryCache, mirrorSrc,
          refreshInFlight, refreshes, proc, net, fetched, rankedOut,
          stats, persistTimer, timeouts, initialized, elapsed, dir, persists,
          hist, dailyFile, execs>>

analyticsVars == <<stats, persistTimer, timeouts, initialized, elapsed, dir,
                   persists, hist>>
dailyVars == <<dailyFile, execs>>
sideVars == <<analyticsVars, dailyVars>>

rankVars == <<fetched, rankedOut>>

envVars == <<apiKeySet, now>>
fileVars == <<cacheFile, tmpFile>>
mirrorVars == <<memoryCache, mirrorSrc>>
flightVars == <<refreshInFlight, refreshes, net>>

NoOutcome == [kind |-> "none", list |-> <<>>, err |-> ""]
Value(list) == [kind |-> "value", list |-> list, err |-> ""]
Error(e) == [kind |-> "error", list |-> <<>>, err |-> e]

\* A refresh operation: the async IIFE of refreshModels with its two catalog
\* requests, and the promise .finally() returns.
\*   st:  "unused"  not started
\*        "running" the IIFE awaits Promise.all
\*        "body"    the IIFE has settled, the finally callback has not run
\*        "settled" the promise stored in _refreshInFlight has settled
\*   rp, all: "none" | "pending" | "ok" | "failed" (the two fetchModels calls)
UnusedRefresh ==
    [st |-> "unused", rp |-> "none", all |-> "none",
     allErr |-> "", outcome |-> NoOutcome]

\* A caller.  pc: "idle" (no call made yet), "await" (awaiting refresh waitOn),
\* "post" (chat awaiting the request for waterfall[idx]), "done" (the call has
\* returned res), "returned".  got is what getFreeModels or refreshModels gave;
\* src, origin, age, diskRead, invoked and posts are history: where the list
\* came from ("mirror", "disk" or "refresh"), where a mirror's list had come
\* from, the age its record had at the call, whether the call ran readCache,
\* the identifiers callModel was invoked with, and the chat requests sent.
\* via is "sendPromptToAI" for a chat() run made by it; reply is the text
\* sendPromptToAI returned (pc "replied") and notified its calls of
\* analytics.recordLlmCall, in order; answers is history: what the requests
\* of a chat() run have settled with, in order.
IdleProc ==
    [pc |-> "idle", op |-> "none", waitOn |-> 0, got |-> NoOutcome, res |-> NoOutcome,
     src |-> "none", origin |-> "none", age |-> 0, diskRead |-> FALSE,
     fallbackModel |-> "", freeModels |-> <<>>, waterfall |-> <<>>, idx |-> 0,
     errors |-> <<>>, invoked |-> <<>>, posts |-> 0, text |-> "", model |-> NullValue,
     message |-> <<>>, via |-> "", reply |-> "", notified |-> <<>>,
     answers |-> <<>>]

\* origin: "disk" or "refresh"; fetchedAt: the timestamp of the record the list
\* belongs to; fillAge: that record's age when the mirror was populated;
\* afterClear: clearMemoryCache() has been called and getFreeModels() has not
\* been called since.
NoMirrorSrc == [origin |-> "none", fetchedAt |-> 0, fillAge |-> 0, afterClear |-> FALSE]

\* ------------------------------------------------------------------------
\* analytics.js (src/__tests__/utils.test.js): the usage store
\* ------------------------------------------------------------------------

DEBOUNCE_MS == 2000

\* Time since the process started is followed in steps of half a debounce
\* interval, MaxSteps of them in a run; a run makes at most MaxMutations
\* record* calls and MaxResets getSnapshotAndReset calls.
ClockStep == DEBOUNCE_MS \div 2
MaxSteps == 4
MaxMutations == 3
MaxResets == 2

\* An object used as a map from keys to counts; {} is EmptyMap.
EmptyMap == <<>>

\* map[key] = (map[key] ?? 0) + 1
Bump(map, key) ==
    [k \in DOMAIN map \cup {key} |->
        IF k = key THEN (IF key \in DOMAIN map THEN map[key] ELSE 0) + 1
        ELSE map[k]]

\* makeEmptyStats() called at time t; windowStart stands for the ISO text of
\* t, previousServerCount is <<>> for null and <<n>> for the number n.
makeEmptyStats(t) ==
    [commandCounts |-> EmptyMap, chatByGuild |-> EmptyMap, chatTotal |-> 0,
     llmSuccess |-> 0, llmFailure |-> 0, modelCounts |-> EmptyMap,
     uptimeTicks |-> 0, windowStart |-> t, previousServerCount |-> <<>>]

\* Object.assign(target, source) and { ...target, ...source }: the fields of
\* source over those of target.
Merge(target, source) ==
    [f \in DOMAIN target \cup DOMAIN source |->
        IF f \in DOMAIN source THEN source[f] ELSE target[f]]

\* anonymizeId on the guild identifiers of the model: the first 12 hex
\* digits of their SHA-256 digest.
anonymizeId(value) ==
    CASE value = "111" -> "f6e0a1e2ac41"
      [] value = "222" -> "9b871512327c"

\* Arguments of the record* calls and of getSnapshotAndReset.
CommandNames == {"daily"}
GuildIds == {Str("111"), NullValue}
LlmCalls == {[success |-> TRUE, modelName |-> Str(MODEL_A)],
             [success |-> FALSE, modelName |-> NullValue]}
ServerCounts == {[t |-> "number", n |-> 5], [t |-> "null", n |-> 0],
                 [t |-> "string", n |-> 7]}
NoArgument == [t |-> "none", n |-> 0]

\* typeof currentServerCount === 'number' ? currentServerCount : null
CountOrNull(currentServerCount) ==
    IF currentServerCount.t = "number" THEN <<currentServerCount.n>> ELSE <<>>

\* const snapshot = { ..._stats, currentServerCount: ... }
snapshotOf(st, currentServerCount) ==
    Merge(st, [currentServerCount |-> CountOrNull(currentServerCount)])

\* Variant: the count of the window that ends is not carried forward.
resetStats_forgetsCount(currentServerCount, t) == makeEmptyStats(t)

\* _stats after the reset made at time t.
resetStats(currentServerCount, t) ==
    [makeEmptyStats(t) EXCEPT
        !.previousServerCount = CountOrNull(currentServerCount)]

\* The text of a file.  JSON.stringify(_stats, null, 2) is the text "json"
\* with the fields of _stats, which JSON.parse gives back (numbers, strings,
\* null and plain objects survive the round trip); "empty" is a file of
\* length 0 and "garbled" a text JSON.parse throws on.  epoch is history:
\* the number of resets made before the text was produced.
EmptyText == [kind |-> "empty", fields |-> <<>>, epoch |-> 0]
GarbledText == [kind |-> "garbled", fields |-> <<>>, epoch |-> 0]
stringify(st, epoch) == [kind |-> "json", fields |-> st, epoch |-> epoch]

\* The stats _load() makes at time t of the text read (<<>> when readFile
\* failed, <<text>> otherwise).
loadStats(read, t) ==
    IF read # <<>> /\ read[1].kind = "json"
    THEN Merge(makeEmptyStats(t), read[1].fields)
    ELSE makeEmptyStats(t)

\* Texts ANALYTICS_FILE may hold when the process starts: the store of an
\* earlier run, the store of an earlier version without the newer fields, a
\* text that is no JSON.
SavedStats ==
    [makeEmptyStats(0) EXCEPT !.commandCounts = Bump(EmptyMap, "daily"),
                              !.uptimeTicks = 1,
                              !.previousServerCount = <<4>>]
OlderStats == [chatTotal |-> 1, uptimeTicks |-> 1, llmSuccess |-> 1]
InitialTexts == {stringify(SavedStats, 0), stringify(OlderStats, 0), GarbledText}

\* The directory: the inode each of the two paths names (0 for none) and the
\* text of every inode made so far.  An open file descriptor stays on its
\* inode when the path is renamed.
NoDisk == [tmp |-> 0, file |-> 0, data |-> <<>>]
InitialDisks == {NoDisk} \cup {[tmp |-> 0, file |-> 1, data |-> <<x>>] : x \in InitialTexts}

\* Variant: a timeout that is pending is left to fire.
schedulePersist_noClear(timer, pending, t) ==
    [timer |-> t + DEBOUNCE_MS, pending |-> pending \cup {t + DEBOUNCE_MS}]

\* schedulePersist() called at time t: clearTimeout on the handle held, then
\* setTimeout(..., DEBOUNCE_MS).  A timeout is known by the time it is due.
schedulePersist(timer, pending, t) ==
    LET cleared == IF timer # 0 THEN pending \ {timer} ELSE pending
    IN  [timer |-> t + DEBOUNCE_MS, pending |-> cleared \cup {t + DEBOUNCE_MS}]

\* A run of _persistNow(): the text was made when it started.
\*   pc: "open"   fsp.writeFile(tmpPath) is to open the file
\*       "write"  the file is open (descriptor fd), the text is to be written
\*       "rename" writeFile has resolved, fsp.rename is pending
\*       "done"   the run is over; err tells whether the catch block ran
\*   by: "timer" (the debounce callback) or "reset" (getSnapshotAndReset)
\*   calls is history: the fsp calls the run has made.
persistNow(st, epoch, by) ==
    [pc |-> "open", text |-> stringify(st, epoch), fd |-> 0, by |-> by,
     err |-> FALSE, calls |-> <<"writeFile">>]

\* History of the store: mutAt, the times of the record* calls made since
\* the store was loaded or reset; captured, how many of them the text of the
\* latest _persistNow run holds; mutations, resets, the calls made so far;
\* bursts, the record* calls that found no timeout pending; flushes, the
\* timeouts that fired; cancelled, the timeouts a reset cleared; arg and
\* snapshot, the argument and the result of the latest getSnapshotAndReset.
NoHistory ==
    [mutAt |-> <<>>, captured |-> 0, mutations |-> 0, resets |-> 0,
     bursts |-> 0, flushes |-> 0, cancelled |-> 0,
     arg |-> NoArgument, snapshot |-> <<>>]

StoreInit(disks) ==
    /\ stats = makeEmptyStats(0)
    /\ persistTimer = 0
    /\ timeouts = {}
    /\ initialized = FALSE
    /\ elapsed = 0
    /\ dir \in disks
    /\ persists = <<>>
    /\ hist = NoHistory

\* The store of a process that has made no analytics call.
StoreIdle == StoreInit({NoDisk})

\* ------------------------------------------------------------------------
\* commands/daily.js (src/unnamed/part_000): the /daily command
\* ------------------------------------------------------------------------

\* /daily executions in one run; they may overlap.
NumExecs == 2
Execs == 1..NumExecs

GUILD_1 == "guild-1"
\* The key the object literal { 668868202721312798: [...] } gets: the number
\* is a double, and its text is the property name.
BASE_GUILD == "668868202721312800"
Channels == {"channel-1", "channel-2"}

\* The text of daily_list.json: JSON.stringify of an object whose keys are
\* guild identifiers and whose values are arrays of channel identifiers, a
\* file of length 0, or a text JSON.parse throws on.
EmptyList == [kind |-> "empty", list |-> <<>>]
GarbledList == [kind |-> "garbled", list |-> <<>>]
ListText(daily_array) == [kind |-> "json", list |-> daily_array]

\* daily_list.json when the first /daily runs: as the check at load time made
\* it, or with a channel of the guild registered.
InitialLists ==
    {ListText([g \in {BASE_GUILD} |-> <<"668868203195400234">>]),
     ListText([g \in {GUILD_1} |-> <<"channel-1">>])}

Includes(array, x) == \E i \in 1..Len(array) : array[i] = x

\* array.splice(array.indexOf(x), 1)
SpliceOut(array, x) ==
    LET channelIndex == CHOOSE i \in 1..Len(array) :
                            array[i] = x /\ \A j \in 1..(i - 1) : array[j] # x
    IN  [i \in 1..(Len(array) - 1) |->
            IF i < channelIndex THEN array[i] ELSE array[i + 1]]

\* registerChannel(guild, channel, daily_array) up to its return: the value
\* returned, whether the channel was added, and the text handed to
\* fs.writeFile, whose callback runs after the return.
registerChannel(guild, channel, daily_array) ==
    LET known == IF guild \in DOMAIN daily_array THEN daily_array[guild] ELSE <<>>
        removes == Includes(known, channel)
        list == IF removes THEN SpliceOut(known, channel) ELSE Append(known, channel)
        keys == IF Len(list) = 0 THEN DOMAIN daily_array \ {guild}
                ELSE DOMAIN daily_array \cup {guild}
    IN  [output |-> IF removes THEN "rem" ELSE "ok",
         added |-> ~removes,
         jsonData |-> ListText([g \in keys |->
                                   IF g = guild THEN list ELSE daily_array[g]])]

\* An execution of /daily.
\*   pc: "idle"    not started
\*       "read"    fs.readFile is pending
\*       "open"    registerChannel has returned and the reply is sent;
\*                 fs.writeFile is to open the file
\*       "write"   the file is open and cut to length 0
\*       "done"    the callback of fs.writeFile has run, or the execution
\*                 ended without a write
\*   output is what registerChannel returned ("" before), reply the kind of
\*   reply sent ("" for none), late what the callback of fs.writeFile
\*   assigned to registerChannel's `output` after the return, threw whether
\*   JSON.parse threw in the callback of fs.readFile.
IdleExec ==
    [pc |-> "idle", guild |-> "", channel |-> "", output |-> "", added |-> FALSE,
     jsonData |-> EmptyList, reply |-> "", late |-> "", writeFailed |-> FALSE,
     threw |-> FALSE]

DailyInit(lists) ==
    /\ dailyFile \in lists
    /\ execs = [e \in Execs |-> IdleExec]

\* A process in which /daily has not been used.
DailyIdle == DailyInit({ListText([g \in {BASE_GUILD} |-> <<"668868203195400234">>])})

InitWith(files) ==
    /\ apiKeySet \in BOOLEAN
    /\ now = StartTime
    /\ cacheFile \in files
    /\ tmpFile = NoFile
    /\ memoryCache = <<>>
    /\ mirrorSrc = NoMirrorSrc
    /\ refreshInFlight = 0
    /\ refreshes = [r \in RefreshIds |-> UnusedRefresh]
    /\ proc = [p \in Procs |-> IdleProc]
    /\ net = [category |-> 0, unfiltered |-> 0]
    /\ fetched = NoFetch
    /\ rankedOut = NotRanked
    /\ StoreIdle
    /\ DailyIdle

Init == InitWith(InitialFiles)

\* ------------------------------------------------------------------------
\* Error messages
\* ------------------------------------------------------------------------

ERR_NO_KEY == "OPENROUTER_API_KEY is not set in the environment."
ERR_NETWORK == "Network Error"
ERR_NO_MODELS == "[ModelManager] No suitable free text-only models found."
ERR_EXHAUSTED == "[LLM] All models exhausted."

\* ------------------------------------------------------------------------
\* llm.js: callModel and the waterfall of chat
\* ------------------------------------------------------------------------

\* What the chat-completion endpoint may answer one request with.
GatewayResponses ==
    {[kind |-> "http_error", content |-> ""],
     [kind |-> "no_choice", content |-> ""],
     [kind |-> "reply", content |-> "   "],
     [kind |-> "reply", content |-> " Great reply. "]}

\* Replies that cleanMessageContent does not return as they are: one with a
\* think block and braces, and one that is JSON for an object whose first
\* value cannot be converted to a string.
TaggedReply == "<think>hm</think>Hello {there}."
UnprintableReply == "{\"a\":{\"toString\":0}}"

\* What the gateway answers a request of sendPromptToAI with: an error, or
\* one of three replies.
BotResponses ==
    {[kind |-> "http_error", content |-> ""],
     [kind |-> "reply", content |-> " Great reply. "],
     [kind |-> "reply", content |-> TaggedReply],
     [kind |-> "reply", content |-> UnprintableReply]}

\* String.prototype.trim on the contents above.
Trim(s) ==
    CASE s = " Great reply. " -> "Great reply."
      [] s = "   " -> ""
      [] OTHER -> s

Failed(reason) == [ok |-> FALSE, text |-> "", reason |-> reason]

\* Variant: a reply is returned as it came.
callModel_unvalidated(model, resp) ==
    CASE resp.kind = "http_error" -> Failed("rate limited")
      [] resp.kind = "no_choice" -> Failed("No choices returned by model")
      [] OTHER -> [ok |-> TRUE, text |-> resp.content, reason |-> ""]

\* callModel once the request has settled with resp: the reply text, or the
\* reason chat() records (err.response.data.error.message ?? err.message; the
\* two validation messages also quote the model).
callModel(model, resp) ==
    CASE resp.kind = "http_error" -> Failed("rate limited")
      [] resp.kind = "no_choice" -> Failed("No choices returned by model")
      [] OTHER ->
           LET text == Trim(resp.content)
           IN  IF text = "" THEN Failed("Empty content returned by model")
               ELSE [ok |-> TRUE, text |-> text, reason |-> ""]

\* Values of process.env.OPENROUTER_FALLBACK_MODEL ?? the default.
FallbackChoices == {DEFAULT_FALLBACK_MODEL, MODEL_A}

\* Variant: the concatenation without the Set.
BuildWaterfall_noDedup(freeModels, fallbackModel) ==
    freeModels \o <<Str(fallbackModel)>>

\* [...new Set([...freeModels, fallbackModel])]
BuildWaterfall(freeModels, fallbackModel) ==
    SetDedup(freeModels \o <<Str(fallbackModel)>>)

\* Variant: the first failure ends the run.
AfterFailure_throwsAtOnce(me, reason) ==
    LET errs == Append(me.errors, [model |-> me.waterfall[me.idx], reason |-> reason])
    IN  [me EXCEPT !.pc = "done", !.errors = errs, !.message = errs,
                   !.res = Error(ERR_EXHAUSTED)]

\* Variant: after the last candidate the loop starts over while requests can
\* be sent.
AfterFailure_startsOver(me, reason) ==
    LET errs == Append(me.errors, [model |-> me.waterfall[me.idx], reason |-> reason])
    IN  IF me.idx < Len(me.waterfall)
        THEN [me EXCEPT !.pc = "try", !.errors = errs, !.idx = @ + 1]
        ELSE IF apiKeySet
        THEN [me EXCEPT !.pc = "try", !.errors = errs, !.idx = 1]
        ELSE [me EXCEPT !.pc = "done", !.errors = errs, !.message = errs,
                        !.res = Error(ERR_EXHAUSTED)]

\* The catch block of one waterfall iteration: the failure is recorded, and
\* the loop goes on to the next candidate or ends in the throw.
AfterFailure(me, reason) ==
    LET errs == Append(me.errors, [model |-> me.waterfall[me.idx], reason |-> reason])
    IN  IF me.idx < Len(me.waterfall)
        THEN [me EXCEPT !.pc = "try", !.errors = errs, !.idx = @ + 1]
        ELSE [me EXCEPT !.pc = "done", !.errors = errs, !.message = errs,
                        !.res = Error(ERR_EXHAUSTED)]

\* Variant: the identifier returned is the head of the waterfall.
AfterSuccess_reportsPreferred(me, text) ==
    [me EXCEPT !.pc = "done", !.text = text, !.model = me.waterfall[1],
               !.res = Value(<<>>)]

\* A successful iteration returns { text, model }.
AfterSuccess(me, text) ==
    [me EXCEPT !.pc = "done", !.text = text, !.model = me.waterfall[me.idx],
               !.res = Value(<<>>)]

\* Variant: the request is posted whether or not the key is set.
Attempt_noKeyCheck(me, keySet) ==
    [me EXCEPT !.invoked = Append(@, me.waterfall[me.idx]),
               !.pc = "post", !.posts = @ + 1]

\* Variant: the request for the next candidate is posted along with this one.
Attempt_speculative(me, keySet) ==
    [me EXCEPT !.invoked = Append(@, me.waterfall[me.idx]),
               !.pc = "post",
               !.posts = IF me.idx < Len(me.waterfall) THEN @ + 2 ELSE @ + 1]

RECURSIVE Attempt(_, _)
\* The waterfall loop from candidate idx up to its next await: callModel builds
\* the client, which throws without a key (the iteration fails and the loop
\* goes on at once), and otherwise posts the request and awaits it.
Attempt(me, keySet) ==
    LET invoked == [me EXCEPT !.invoked = Append(@, me.waterfall[me.idx])]
    IN  IF keySet
        THEN [invoked EXCEPT !.pc = "post", !.posts = @ + 1]
        ELSE LET failed == AfterFailure(invoked, ERR_NO_KEY)
             IN  IF failed.pc = "done" THEN failed ELSE Attempt(failed, keySet)

\* Variant: chat() without the try/catch around getFreeModels().
Resume_noCatch(me, outcome) ==
    CASE me.op = "chat" /\ outcome.kind = "value" ->
           Attempt([me EXCEPT !.got = outcome, !.freeModels = outcome.list,
                              !.waterfall = BuildWaterfall(outcome.list, me.fallbackModel),
                              !.idx = 1],
                   apiKeySet)
      [] me.op = "cron" ->
           [me EXCEPT !.pc = "done", !.got = outcome, !.res = NoOutcome]
      [] OTHER ->
           [me EXCEPT !.pc = "done", !.got = outcome, !.res = outcome]

\* Variant: the cron callback without its try/catch.
Resume_cronRethrows(me, outcome) ==
    CASE me.op = "chat" ->
           LET free == IF outcome.kind = "value" THEN outcome.list ELSE <<>>
           IN  Attempt([me EXCEPT !.got = outcome, !.freeModels = free,
                                  !.waterfall = BuildWaterfall(free, me.fallbackModel),
                                  !.idx = 1],
                       apiKeySet)
      [] OTHER ->
           [me EXCEPT !.pc = "done", !.got = outcome, !.res = outcome]

\* The caller's state once the promise it awaits (getFreeModels or
\* refreshModels) has given `outcome`, up to its next await.
Resume(me, outcome) ==
    CASE me.op = "chat" ->
           LET free == IF outcome.kind = "value" THEN outcome.list ELSE <<>>
           IN  Attempt([me EXCEPT !.got = outcome, !.freeModels = free,
                                  !.waterfall = BuildWaterfall(free, me.fallbackModel),
                                  !.idx = 1],
                       apiKeySet)
      [] me.op = "cron" ->
           [me EXCEPT !.pc = "done", !.got = outcome, !.res = NoOutcome]
      [] OTHER ->
           [me EXCEPT !.pc = "done", !.got = outcome, !.res = outcome]

\* ------------------------------------------------------------------------
\* Callers
\* ------------------------------------------------------------------------

\* A call that has returned shows its result in the state it returns in; the
\* next step, Return, forgets it, together with the outcomes of the refresh
\* operations that have settled.  Return touches nothing the program reads,
\* so it is taken before any other step.
Quiet == \A q \in Procs : proc[q].pc # "done"

ReturnedProc == [IdleProc EXCEPT !.pc = "returned"]

Return ==
    /\ \E q \in Procs : proc[q].pc = "done" /\ proc[q].via = ""
    /\ proc' = [p \in Procs |-> IF proc[p].pc = "done" /\ proc[p].via = ""
                                 THEN ReturnedProc ELSE proc[p]]
    /\ refreshes' = [r \in RefreshIds |->
                        IF refreshes[r].st = "settled"
                        THEN [refreshes[r] EXCEPT !.outcome = NoOutcome]
                        ELSE refreshes[r]]
    /\ UNCHANGED <<sideVars, rankVars, envVars, fileVars, mirrorVars, refreshInFlight, net>>

\* Caller p makes its call once the callers before it have made theirs.
MayCall(p) ==
    /\ Quiet
    /\ proc[p].pc = "idle"
    /\ \A q \in 1..(p - 1) : proc[q].pc # "idle"

NewCall(op) == [IdleProc EXCEPT !.op = op]

\* ------------------------------------------------------------------------
\* modelManager.js: refreshModels, getFreeModels, clearMemoryCache
\* ------------------------------------------------------------------------

UsedRefreshes == {r \in RefreshIds : refreshes[r].st # "unused"}
NextRefreshId == Cardinality(UsedRefreshes) + 1
Unsettled(r) == refreshes[r].st \in {"running", "body"}

\* Variant: refreshModels without its first line.
JoinsPending_never == FALSE

\* if (_refreshInFlight): the test refreshModels makes before it starts a
\* fetch sequence.
JoinsPending == refreshInFlight # 0

\* Variant: the promise is not stored.
StoredMarker_forgotten(r) == 0

\* What refreshModels stores in _refreshInFlight when it starts operation r.
StoredMarker(r) == r

\* Variant: the request goes out whether or not the key is set.
fetchModels_noKeyCheck(keySet) == "pending"

\* fetchModels() up to its await: buildRequestConfig throws without the key,
\* before axios.get is called, and the promise is rejected; with the key the
\* request is sent.
fetchModels(keySet) == IF keySet THEN "pending" ELSE "failed"

\* refreshModels() up to its first await, called by p: join the pending
\* operation, or start the IIFE, whose two fetchModels calls each read the
\* key (throwing without it) and send their request.
refreshModelsCall(p, me) ==
    IF JoinsPending
    THEN /\ proc' = [proc EXCEPT ![p] =
                        [me EXCEPT !.pc = "await", !.waitOn = refreshInFlight,
                                   !.src = "refresh"]]
         /\ UNCHANGED flightVars
    ELSE LET r == NextRefreshId
             sent == fetchModels(apiKeySet)
         IN  /\ r \in RefreshIds
             /\ refreshes' = [refreshes EXCEPT ![r] =
                                 [UnusedRefresh EXCEPT
                                     !.st = "running", !.rp = sent, !.all = sent,
                                     !.allErr = IF sent = "failed" THEN ERR_NO_KEY ELSE ""]]
             /\ refreshInFlight' = StoredMarker(r)
             /\ net' = IF sent = "pending"
                       THEN [net EXCEPT !.category = @ + 1, !.unfiltered = @ + 1]
                       ELSE net
             /\ proc' = [proc EXCEPT ![p] =
                            [me EXCEPT !.pc = "await", !.waitOn = r,
                                       !.src = "refresh"]]

\* Variant: the mirror is never looked at.
MirrorHit_never == FALSE

\* if (_memoryCache)
MirrorHit == memoryCache # <<>>

\* getFreeModels() up to its first await, called by p.
getFreeModelsCall(p, me0) ==
    IF MirrorHit
    THEN /\ proc' = [proc EXCEPT ![p] =
                        Resume([me0 EXCEPT !.src = "mirror",
                                          !.origin = mirrorSrc.origin,
                                          !.age = now - mirrorSrc.fetchedAt],
                               Value(memoryCache[1]))]
         /\ mirrorSrc' = [mirrorSrc EXCEPT !.afterClear = FALSE]
         /\ UNCHANGED <<memoryCache, flightVars>>
    ELSE LET disk == readCache(cacheFile)
             me == [me0 EXCEPT !.diskRead = TRUE]
         IN  IF isCacheValid(disk, now)
             THEN /\ memoryCache' = <<disk.models>>
                  /\ mirrorSrc' = [origin |-> "disk", fetchedAt |-> disk.fetchedAt,
                                   fillAge |-> now - disk.fetchedAt,
                                   afterClear |-> FALSE]
                  /\ proc' = [proc EXCEPT ![p] =
                                 Resume([me EXCEPT !.src = "disk",
                                                   !.age = now - disk.fetchedAt],
                                        Value(disk.models))]
                  /\ UNCHANGED flightVars
             ELSE /\ refreshModelsCall(p, me)
                  /\ mirrorSrc' = [mirrorSrc EXCEPT !.afterClear = FALSE]
                  /\ UNCHANGED memoryCache

\* A caller calls getFreeModels().
CallGetFreeModels(p) ==
    /\ MayCall(p)
    /\ getFreeModelsCall(p, NewCall("getFreeModels"))
    /\ UNCHANGED <<sideVars, rankVars, envVars, fileVars>>

\* A caller calls refreshModels() (a forced refresh).
CallRefreshModels(p) ==
    /\ MayCall(p)
    /\ refreshModelsCall(p, NewCall("refreshModels"))
    /\ UNCHANGED <<sideVars, rankVars, envVars, fileVars, mirrorVars>>

\* llm.js: the daily cron callback awaits refreshModels() and logs a failure.
CronRefresh(p) ==
    /\ MayCall(p)
    /\ refreshModelsCall(p, NewCall("cron"))
    /\ UNCHANGED <<sideVars, rankVars, envVars, fileVars, mirrorVars>>

\* chat() up to its next await: the fallback is read, getFreeModels() is
\* called and, when it answers from the mirror or the disk, the waterfall
\* starts.
ChatStart(p, fallbackModel) ==
    /\ MayCall(p)
    /\ fallbackModel \in FallbackChoices
    /\ getFreeModelsCall(p, [NewCall("chat") EXCEPT !.fallbackModel = fallbackModel])
    /\ UNCHANGED <<sideVars, rankVars, envVars, fileVars>>

\* The posted request of chat caller p settles with resp; on a failure the
\* loop goes on to its next await or to the throw.
ChatSettle(p, resp) ==
    /\ Quiet
    /\ proc[p].pc = "post"
    /\ resp \in GatewayResponses \cup BotResponses
    /\ LET me == [proc[p] EXCEPT !.answers = Append(@, resp)]
           r == callModel(me.waterfall[me.idx], resp)
           failed == AfterFailure(me, r.reason)
       IN  proc' = [proc EXCEPT ![p] =
                       IF r.ok THEN AfterSuccess(me, r.text)
                       ELSE IF failed.pc = "done" THEN failed
                       ELSE Attempt(failed, apiKeySet)]
    /\ UNCHANGED <<sideVars, rankVars, envVars, fileVars, mirrorVars, flightVars>>

TIRED_MESSAGE == "Dear me, I am rather tired at this time. Please try again later."

\* cleanMessageContent on the reply texts of the model.  Of the unprintable
\* reply JSON.parse makes an object, `content` becomes its first value, an
\* object with an own toString that is no function; String(content) throws
\* inside the try, the catch leaves `content` an object, and content.replace
\* after the try throws a TypeError out of the function.
cleanMessageContent(text) ==
    CASE text = TaggedReply -> [threw |-> FALSE, content |-> "Hello there."]
      [] text = UnprintableReply -> [threw |-> TRUE, content |-> ""]
      [] OTHER -> [threw |-> FALSE, content |-> text]

\* analytics.recordLlmCall(success, modelName = null): an async function, so
\* the call itself returns a promise; the promise settles later.
recordLlmCall(success, modelName) ==
    [success |-> success, model |-> modelName, st |-> "pending"]

\* What sendPromptToAI holds of the chat() run once it has settled: its
\* outcome and, of { text, model }, the two fields.
Settled(me) ==
    [IdleProc EXCEPT !.pc = "replied", !.op = me.op, !.via = me.via,
                     !.res = me.res, !.text = me.text, !.model = me.model]

\* Variant: exhaustion is not reported.
AfterChat_silentOnExhaustion(me) ==
    IF me.res.kind = "value"
    THEN [Settled(me) EXCEPT !.notified = <<recordLlmCall(TRUE, me.model)>>,
                             !.reply = cleanMessageContent(me.text).content]
    ELSE [Settled(me) EXCEPT !.reply = TIRED_MESSAGE]

\* sendPromptToAI from the settling of llm.chat() to its return: the try
\* block goes on after the await, or the catch block runs; an exception
\* thrown in the try block after the await lands in the same catch block.
AfterChat(me) ==
    IF me.res.kind = "value"
    THEN LET first == <<recordLlmCall(TRUE, me.model)>>
             cleaned == cleanMessageContent(me.text)
         IN  IF cleaned.threw
             THEN [Settled(me) EXCEPT
                      !.notified = Append(first, recordLlmCall(FALSE, NullValue)),
                      !.reply = TIRED_MESSAGE]
             ELSE [Settled(me) EXCEPT !.notified = first,
                                      !.reply = cleaned.content]
    ELSE [Settled(me) EXCEPT !.notified = <<recordLlmCall(FALSE, NullValue)>>,
                             !.reply = TIRED_MESSAGE]

\* Caller p calls sendPromptToAI, which calls llm.chat() without a
\* fallbackModel option.
SendPromptToAI(p, fallbackModel) ==
    /\ MayCall(p)
    /\ fallbackModel \in FallbackChoices
    /\ getFreeModelsCall(p, [NewCall("chat") EXCEPT !.fallbackModel = fallbackModel,
                                                   !.via = "sendPromptToAI"])
    /\ UNCHANGED <<sideVars, rankVars, envVars, fileVars>>

\* The chat() run of caller p has settled and sendPromptToAI resumes.
SendPromptToAIResume(p) ==
    /\ proc[p].pc = "done"
    /\ proc[p].via = "sendPromptToAI"
    /\ proc' = [proc EXCEPT ![p] = AfterChat(proc[p])]
    /\ UNCHANGED <<sideVars, rankVars, envVars, fileVars, mirrorVars, flightVars>>

\* The promise of the i-th recordLlmCall of caller p settles; a rejection is
\* taken by .catch(() => { }).
RecordLlmCallSettle(p, i, fulfilled) ==
    /\ Quiet
    /\ proc[p].pc = "replied"
    /\ i \in 1..Len(proc[p].notified)
    /\ proc[p].notified[i].st = "pending"
    /\ proc' = [proc EXCEPT ![p].notified[i].st =
                                IF fulfilled THEN "recorded" ELSE "rejected"]
    /\ UNCHANGED <<sideVars, rankVars, envVars, fileVars, mirrorVars, flightVars>>

\* A catalog request of refresh r is answered: the category request
\* (which = "rp") or the unfiltered one ("all").  The payload is read only
\* when the IIFE resumes, and is drawn there.  A request whose refresh has
\* already settled changes nothing.
CatalogRespond(r, which) ==
    /\ Quiet
    /\ refreshes[r][which] = "pending"
    /\ LET R == refreshes[r]
       IN  refreshes' = [refreshes EXCEPT ![r] =
              IF R.st # "running" THEN [R EXCEPT ![which] = "none"]
              ELSE [R EXCEPT ![which] = "ok"]]
    /\ UNCHANGED <<sideVars, rankVars, envVars, fileVars, mirrorVars, refreshInFlight, proc, net>>

\* A catalog request of refresh r fails (network error, timeout, bad status).
CatalogFail(r, which) ==
    /\ Quiet
    /\ refreshes[r][which] = "pending"
    /\ LET R == refreshes[r]
       IN  refreshes' = [refreshes EXCEPT ![r] =
              IF R.st # "running" THEN [R EXCEPT ![which] = "none"]
              ELSE IF which = "rp" THEN [R EXCEPT !.rp = "failed"]
              ELSE [R EXCEPT !.all = "failed", !.allErr = ERR_NETWORK]]
    /\ UNCHANGED <<sideVars, rankVars, envVars, fileVars, mirrorVars, refreshInFlight, proc, net>>

\* How writeFileSync and renameSync may go: both succeed; writeFileSync throws
\* before writing anything, or after writing part of the text; renameSync
\* throws.  The files a failure leaves are also the files a process that
\* stops at that point leaves.
FsOutcomes == {"ok", "writeFail", "writePartial", "renameFail"}

ERR_FS == "EACCES: permission denied"

\* Variant: writeCache without its try/catch.
writeCache_noCatch(models, fs) ==
    LET payload == Record(now, models)
    IN  CASE fs = "ok" -> [cacheFile |-> payload, tmpFile |-> NoFile, error |-> ""]
          [] fs = "writeFail" ->
               [cacheFile |-> cacheFile, tmpFile |-> tmpFile, error |-> ERR_FS]
          [] fs = "writePartial" ->
               [cacheFile |-> cacheFile, tmpFile |-> Partial, error |-> ERR_FS]
          [] fs = "renameFail" ->
               [cacheFile |-> cacheFile, tmpFile |-> payload, error |-> ERR_FS]

\* Variant: the text is written to CACHE_FILE itself.
writeCache_inPlace(models, fs) ==
    LET payload == Record(now, models)
    IN  CASE fs \in {"ok", "renameFail"} ->
               [cacheFile |-> payload, tmpFile |-> tmpFile, error |-> ""]
          [] fs = "writeFail" ->
               [cacheFile |-> cacheFile, tmpFile |-> tmpFile, error |-> ""]
          [] fs = "writePartial" ->
               [cacheFile |-> Partial, tmpFile |-> tmpFile, error |-> ""]

\* writeCache(models): the files after writeFileSync(tmp) and renameSync, for
\* each way the file system can answer, and the error thrown to the caller
\* ("" for none: the catch block logs and returns).
writeCache(models, fs) ==
    LET payload == Record(now, models)
    IN  CASE fs = "ok" -> [cacheFile |-> payload, tmpFile |-> NoFile, error |-> ""]
          [] fs = "writeFail" ->
               [cacheFile |-> cacheFile, tmpFile |-> tmpFile, error |-> ""]
          [] fs = "writePartial" ->
               [cacheFile |-> cacheFile, tmpFile |-> Partial, error |-> ""]
          [] fs = "renameFail" ->
               [cacheFile |-> cacheFile, tmpFile |-> payload, error |-> ""]

\* Variant: a failed category fetch fails the refresh.
refreshResult_categoryFatal(rpStatus, allStatus, allErr, rpData, allData) ==
    IF allStatus = "failed" THEN Error(allErr)
    ELSE IF rpStatus = "failed" THEN Error(ERR_NETWORK)
    ELSE LET rpIds == {rpData[i].id : i \in 1..Len(rpData)}
             ranked == rankModels(rpData \o allData, rpIds)
         IN  IF Len(ranked) = 0 THEN Error(ERR_NO_MODELS) ELSE Value(ranked)

\* Variant: an empty ranking is a result like any other.
refreshResult_emptyAllowed(rpStatus, allStatus, allErr, rpData, allData) ==
    IF allStatus = "failed" THEN Error(allErr)
    ELSE LET roleplayRaw == IF rpStatus = "ok" THEN rpData ELSE <<>>
             rpIds == {roleplayRaw[i].id : i \in 1..Len(roleplayRaw)}
         IN  Value(rankModels(roleplayRaw \o allData, rpIds))

\* What the IIFE of refreshModels comes to before it writes anything:
\* Promise.all rejects with the error of the unfiltered fetch; a failed
\* category fetch counts as []; an empty ranking throws.
refreshResult(rpStatus, allStatus, allErr, rpData, allData) ==
    IF allStatus = "failed" THEN Error(allErr)
    ELSE LET roleplayRaw == IF rpStatus = "ok" THEN rpData ELSE <<>>
             rpIds == {roleplayRaw[i].id : i \in 1..Len(roleplayRaw)}
             merged == roleplayRaw \o allData
             ranked == rankModels(merged, rpIds)
         IN  IF Len(ranked) = 0 THEN Error(ERR_NO_MODELS) ELSE Value(ranked)

\* Variant: a refresh that fails forgets the list the mirror held.
RefreshBody_failureDropsMirror(r, rpData, allData, fs) ==
    /\ Quiet
    /\ refreshes[r].st = "running"
    /\ \/ refreshes[r].all = "failed"
       \/ refreshes[r].all = "ok" /\ refreshes[r].rp \in {"ok", "failed"}
    /\ rpData \in (IF refreshes[r].rp = "ok" THEN RoleplayCatalogs ELSE {<<>>})
    /\ allData \in (IF refreshes[r].all = "ok" THEN AllCatalogs ELSE {<<>>})
    /\ LET R == refreshes[r]
           result == refreshResult(R.rp, R.all, R.allErr, rpData, allData)
           ranked == result.list
           written == writeCache(ranked, fs)
           done(o) == [refreshes EXCEPT ![r] =
                          [UnusedRefresh EXCEPT
                              !.st = "body", !.outcome = o,
                              !.rp = IF R.rp = "pending" THEN "pending" ELSE "none"]]
       IN  IF result.kind = "error"
           THEN /\ fs = "ok"
                /\ refreshes' = done(result)
                /\ memoryCache' = <<>>
                /\ mirrorSrc' = NoMirrorSrc
                /\ UNCHANGED fileVars
           ELSE /\ cacheFile' = written.cacheFile
                /\ tmpFile' = written.tmpFile
                /\ memoryCache' = <<ranked>>
                /\ mirrorSrc' = [origin |-> "refresh", fetchedAt |-> now, fillAge |-> 0,
                                 afterClear |-> mirrorSrc.afterClear]
                /\ refreshes' = done(Value(ranked))
    /\ UNCHANGED <<sideVars, rankVars, envVars, refreshInFlight, proc, net>>

\* Promise.all has settled: it rejects as soon as the unfiltered fetch has
\* failed, and resolves once both fetches have (a failed category fetch
\* counting as []).  The rest of the IIFE runs.
RefreshBody(r, rpData, allData, fs) ==
    /\ Quiet
    /\ refreshes[r].st = "running"
    /\ \/ refreshes[r].all = "failed"
       \/ refreshes[r].all = "ok" /\ refreshes[r].rp \in {"ok", "failed"}
    /\ rpData \in (IF refreshes[r].rp = "ok" THEN RoleplayCatalogs ELSE {<<>>})
    /\ allData \in (IF refreshes[r].all = "ok" THEN AllCatalogs ELSE {<<>>})
    /\ LET R == refreshes[r]
           result == refreshResult(R.rp, R.all, R.allErr, rpData, allData)
           ranked == result.list
           written == writeCache(ranked, fs)
           done(o) == [refreshes EXCEPT ![r] =
                          [UnusedRefresh EXCEPT
                              !.st = "body", !.outcome = o,
                              !.rp = IF R.rp = "pending" THEN "pending" ELSE "none"]]
       IN  IF result.kind = "error"
           THEN /\ fs = "ok"
                /\ refreshes' = done(result)
                /\ UNCHANGED <<fileVars, mirrorVars>>
           ELSE IF written.error # ""
           THEN /\ cacheFile' = written.cacheFile
                /\ tmpFile' = written.tmpFile
                /\ refreshes' = done(Error(written.error))
                /\ UNCHANGED mirrorVars
           ELSE /\ cacheFile' = written.cacheFile
                /\ tmpFile' = written.tmpFile
                /\ memoryCache' = <<ranked>>
                /\ mirrorSrc' = [origin |-> "refresh", fetchedAt |-> now, fillAge |-> 0,
                                 afterClear |-> mirrorSrc.afterClear]
                /\ refreshes' = done(Value(ranked))
    /\ UNCHANGED <<sideVars, rankVars, envVars, refreshInFlight, proc, net>>

\* Variant: refreshModels without its .finally().
RefreshFinally_keepsMarker(r) ==
    /\ Quiet
    /\ refreshes[r].st = "body"
    /\ refreshes' = [refreshes EXCEPT ![r].st = "settled"]
    /\ proc' = [p \in Procs |->
                   IF proc[p].pc = "await" /\ proc[p].waitOn = r
                   THEN Resume(proc[p], refreshes[r].outcome)
                   ELSE proc[p]]
    /\ UNCHANGED <<sideVars, rankVars, envVars, fileVars, mirrorVars, refreshInFlight, net>>

\* The .finally() callback clears the marker; the promise that was stored in
\* it settles, and the callers awaiting it resume, each up to its next await.
RefreshFinally(r) ==
    /\ Quiet
    /\ refreshes[r].st = "body"
    /\ refreshInFlight' = 0
    /\ refreshes' = [refreshes EXCEPT ![r].st = "settled"]
    /\ proc' = [p \in Procs |->
                   IF proc[p].pc = "await" /\ proc[p].waitOn = r
                   THEN Resume(proc[p], refreshes[r].outcome)
                   ELSE proc[p]]
    /\ UNCHANGED <<sideVars, rankVars, envVars, fileVars, mirrorVars, net>>

\* Variant: the clear also drops the pending refresh.
clearMemoryCache_resetsAll ==
    /\ Quiet
    /\ memoryCache' = <<>>
    /\ mirrorSrc' = [NoMirrorSrc EXCEPT !.afterClear = TRUE]
    /\ refreshInFlight' = 0
    /\ UNCHANGED <<sideVars, rankVars, envVars, fileVars, refreshes, net, proc>>

clearMemoryCache ==
    /\ Quiet
    /\ memoryCache' = <<>>
    /\ mirrorSrc' = [NoMirrorSrc EXCEPT !.afterClear = TRUE]
    /\ UNCHANGED <<sideVars, rankVars, envVars, fileVars, flightVars, proc>>

\* Time passes.
Tick ==
    /\ Quiet
    /\ now < LastTime
    /\ now' = now + TickMs
    /\ UNCHANGED <<sideVars, rankVars, apiKeySet, fileVars, mirrorVars, flightVars, proc>>

\* ------------------------------------------------------------------------
\* Specifications
\* ------------------------------------------------------------------------

Machinery ==
    \/ \E r \in RefreshIds, which \in {"rp", "all"} : CatalogRespond(r, which)
    \/ \E r \in RefreshIds, which \in {"rp", "all"} : CatalogFail(r, which)
    \/ \E r \in RefreshIds, rpData \in RoleplayCatalogs \cup {<<>>},
          allData \in AllCatalogs \cup {<<>>}, fs \in FsOutcomes :
             RefreshBody(r, rpData, allData, fs)
    \/ \E r \in RefreshIds : RefreshFinally(r)
    \/ Return
    \/ Tick

\* The cache under every kind of caller but chat.
NextCache ==
    \/ \E p \in Procs : CallGetFreeModels(p)
    \/ \E p \in Procs : CallRefreshModels(p)
    \/ \E p \in Procs : CronRefresh(p)
    \/ clearMemoryCache
    \/ Machinery

SpecCache == Init /\ [][NextCache]_vars

\* A step of the event loop: a request settles, a continuation that is ready
\* runs, a caller returns.
Progress ==
    \/ \E r \in RefreshIds, which \in {"rp", "all"} : CatalogRespond(r, which)
    \/ \E r \in RefreshIds, which \in {"rp", "all"} : CatalogFail(r, which)
    \/ \E r \in RefreshIds, rpData \in RoleplayCatalogs \cup {<<>>},
          allData \in AllCatalogs \cup {<<>>}, fs \in FsOutcomes :
             RefreshBody(r, rpData, allData, fs)
    \/ \E r \in RefreshIds : RefreshFinally(r)
    \/ Return

\* The event loop does not stop while it has something to run, and a request
\* does not stay pending for ever (axios is given FETCH_TIMEOUT_MS).
FairRefresh == WF_vars(Progress)

\* A refresh sees the cache file through isCacheValid only: a file that is
\* served and a file that is absent stand for the rest (a record that is
\* expired at the start stays a miss, as an absent file does).
InitLive == InitWith({NoFile, FreshRecord})

SpecCacheLive == InitLive /\ [][NextCache]_vars /\ FairRefresh

\* The cache started on a file that was edited by hand or written by another
\* version of the program.
InitForeign ==
    InitWith({NoFile, RepeatingRecord, LongRecord,
              Record(FreshAtStart, <<NullValue, Str(MODEL_A)>>)})

SpecForeign == InitForeign /\ [][NextCache]_vars

\* The cache with getFreeModels() as its only entry point: no forced refresh,
\* no cron job, no clearMemoryCache().
NextReads ==
    \/ \E p \in Procs : CallGetFreeModels(p)
    \/ Machinery

SpecReads == Init /\ [][NextReads]_vars

\* One chat() run among the callers.
NoChatYet == \A q \in Procs : proc[q].op # "chat"

\* llm.js as deployed: its callers are chat() runs and the daily cron job.
NextChat ==
    \/ \E p \in Procs, f \in FallbackChoices : NoChatYet /\ ChatStart(p, f)
    \/ \E p \in Procs, resp \in GatewayResponses : ChatSettle(p, resp)
    \/ \E p \in Procs : CronRefresh(p)
    \/ Machinery

\* chat() sees the cache file through getFreeModels() only: a file that is
\* served, a file that is expired and a file that is absent stand for the rest.
InitChat == InitWith({NoFile, FreshRecord, ExpiredRecord})

SpecChat == InitChat /\ [][NextChat]_vars

\* Lines 237-241 of refreshModels on their own: the two fetched lists are
\* merged, category list first, and ranked.
RankFetched ==
    /\ ~rankedOut.done
    /\ LET roleplayRaw == fetched.roleplayRaw
           allRaw == fetched.allRaw
           rpIds == {roleplayRaw[i].id : i \in 1..Len(roleplayRaw)}
           merged == roleplayRaw \o allRaw
       IN  rankedOut' = [done |-> TRUE, ranked |-> rankModels(merged, rpIds)]
    /\ UNCHANGED <<sideVars, envVars, fileVars, mirrorVars, flightVars, proc, fetched>>

InitRank ==
    /\ apiKeySet = TRUE
    /\ now = StartTime
    /\ cacheFile = NoFile
    /\ tmpFile = NoFile
    /\ memoryCache = <<>>
    /\ mirrorSrc = NoMirrorSrc
    /\ refreshInFlight = 0
    /\ refreshes = [r \in RefreshIds |-> UnusedRefresh]
    /\ proc = [p \in Procs |-> IdleProc]
    /\ net = [category |-> 0, unfiltered |-> 0]
    /\ fetched \in RankInputs
    /\ rankedOut = NotRanked
    /\ StoreIdle
    /\ DailyIdle

NextRank == RankFetched

\* The ranking applied to every pair of fetched lists of RankInputs.
SpecRank == InitRank /\ [][NextRank]_vars

\* The event loop with the gateway: a request of chat() does not stay pending
\* for ever either (the axios client of createClient has a timeout).  How a
\* request fails makes no difference to what the loop does next: one failure
\* and one reply stand for the rest.
LiveResponses ==
    {[kind |-> "http_error", content |-> ""],
     [kind |-> "reply", content |-> " Great reply. "]}

ProgressChat ==
    \/ Progress
    \/ \E p \in Procs, resp \in LiveResponses : ChatSettle(p, resp)

FairChat == WF_vars(ProgressChat)

\* A file that is served and a file that is absent.
InitChatLive == InitWith({NoFile, FreshRecord})

\* One run of the daily job in the day the model spans.
NoCronYet == \A q \in Procs : proc[q].op # "cron" /\ proc[q].pc # "returned"

\* One chat() run and one run of the cron job, in either order.
NextChatLive ==
    \/ \E p \in Procs, f \in FallbackChoices : NoChatYet /\ ChatStart(p, f)
    \/ \E p \in Procs, resp \in LiveResponses : ChatSettle(p, resp)
    \/ \E p \in Procs : NoCronYet /\ CronRefresh(p)
    \/ Machinery

SpecChatLive == InitChatLive /\ [][NextChatLive]_vars /\ FairChat

\* chester.js: its inference calls go through sendPromptToAI, next to the
\* cron job of llm.js.
NextBot ==
    \/ \E p \in Procs, f \in FallbackChoices : NoChatYet /\ SendPromptToAI(p, f)
    \/ \E p \in Procs, resp \in BotResponses : ChatSettle(p, resp)
    \/ \E p \in Procs : SendPromptToAIResume(p)
    \/ \E p \in Procs, i \in 1..2, fulfilled \in BOOLEAN :
          RecordLlmCallSettle(p, i, fulfilled)
    \/ \E p \in Procs : CronRefresh(p)
    \/ Machinery

\* A file that is served and a file that is absent.
InitBot == InitWith({NoFile, FreshRecord})

SpecBot == InitBot /\ [][NextBot]_vars

Next ==
    \/ \E p \in Procs : CallGetFreeModels(p)
    \/ \E p \in Procs : CallRefreshModels(p)
    \/ \E p \in Procs : CronRefresh(p)
    \/ \E p \in Procs, f \in FallbackChoices : NoChatYet /\ ChatStart(p, f)
    \/ \E p \in Procs, resp \in GatewayResponses : ChatSettle(p, resp)
    \/ clearMemoryCache
    \/ Machinery

Spec == Init /\ [][Next]_vars

\* ------------------------------------------------------------------------
\* analytics.js: actions
\* ------------------------------------------------------------------------

modelVars == <<rankVars, envVars, fileVars, mirrorVars, flightVars, proc>>

\* Every exported function starts with `await ensureInitialized()`: the first
\* call starts _load(), and the calls made meanwhile resume after it, in the
\* order they were made.  _load() reads ANALYTICS_FILE (readFile fails when
\* the path names nothing).
Load ==
    /\ ~initialized
    /\ stats' = loadStats(IF dir.file = 0 THEN <<>> ELSE <<dir.data[dir.file]>>,
                          elapsed)
    /\ initialized' = TRUE
    /\ UNCHANGED <<persistTimer, timeouts, elapsed, dir, persists, hist,
                   dailyVars, modelVars>>

\* The part the record* functions share: the counters change, and
\* schedulePersist() is called.
Mutate(newStats) ==
    /\ initialized
    /\ hist.mutations < MaxMutations
    /\ stats' = newStats
    /\ LET set == schedulePersist(persistTimer, timeouts, elapsed)
       IN  /\ persistTimer' = set.timer
           /\ timeouts' = set.pending
    /\ hist' = [hist EXCEPT !.mutAt = Append(@, elapsed),
                            !.mutations = @ + 1,
                            !.bursts = IF persistTimer = 0 THEN @ + 1 ELSE @]
    /\ UNCHANGED <<initialized, elapsed, dir, persists, dailyVars, modelVars>>

RecordCommand(commandName) ==
    Mutate([stats EXCEPT !.commandCounts = Bump(@, commandName)])

\* const key = guildId ? anonymizeId(guildId) : '__dm__'
RecordChat(guildId) ==
    LET key == IF guildId.t = "string" /\ guildId.v # ""
               THEN anonymizeId(guildId.v) ELSE "__dm__"
    IN  Mutate([stats EXCEPT !.chatByGuild = Bump(@, key),
                             !.chatTotal = @ + 1])

RecordLlmCall(success, modelName) ==
    LET counted == IF success THEN [stats EXCEPT !.llmSuccess = @ + 1]
                   ELSE [stats EXCEPT !.llmFailure = @ + 1]
    IN  Mutate(IF modelName.t = "string" /\ modelName.v # ""
               THEN [counted EXCEPT !.modelCounts = Bump(@, modelName.v)]
               ELSE counted)

RecordUptimeTick ==
    Mutate([stats EXCEPT !.uptimeTicks = @ + 1])

\* The callback of the timeout due at h runs: `_persistTimer = null`, then
\* _persistNow() up to its first await.
TimerFire(h) ==
    /\ h \in timeouts
    /\ elapsed >= h
    /\ timeouts' = timeouts \ {h}
    /\ persistTimer' = 0
    /\ persists' = Append(persists, persistNow(stats, hist.resets, "timer"))
    /\ hist' = [hist EXCEPT !.flushes = @ + 1, !.captured = Len(hist.mutAt)]
    /\ UNCHANGED <<stats, initialized, elapsed, dir, dailyVars, modelVars>>

\* Time passes; a timeout that is due fires before it does.
Elapse ==
    /\ elapsed < MaxSteps * ClockStep
    /\ \A h \in timeouts : h > elapsed
    /\ elapsed' = elapsed + ClockStep
    /\ UNCHANGED <<stats, persistTimer, timeouts, initialized, dir, persists,
                   hist, dailyVars, modelVars>>

\* fsp.writeFile of run k opens ANALYTICS_FILE.tmp for writing: the inode the
\* path names is cut to length 0, or a new one is made; or the open fails
\* and the run ends in its catch block.
PersistOpen(k, opens) ==
    /\ k \in 1..Len(persists)
    /\ persists[k].pc = "open"
    /\ IF ~opens
       THEN /\ persists' = [persists EXCEPT ![k].pc = "done", ![k].err = TRUE]
            /\ UNCHANGED dir
       ELSE IF dir.tmp # 0
       THEN /\ dir' = [dir EXCEPT !.data[dir.tmp] = EmptyText]
            /\ persists' = [persists EXCEPT ![k].pc = "write", ![k].fd = dir.tmp]
       ELSE /\ dir' = [dir EXCEPT !.data = Append(@, EmptyText),
                                    !.tmp = Len(dir.data) + 1]
            /\ persists' = [persists EXCEPT ![k].pc = "write",
                                            ![k].fd = Len(dir.data) + 1]
    /\ UNCHANGED <<stats, persistTimer, timeouts, initialized, elapsed, hist,
                   dailyVars, modelVars>>

\* fsp.writeFile of run k writes its text at offset 0 of its descriptor and
\* resolves; the run calls fsp.rename.  Over a text another descriptor has
\* written meanwhile, the file holds the new text when that is at least as
\* long, and a mix of the two otherwise.
PersistWrite(k, covers) ==
    /\ k \in 1..Len(persists)
    /\ persists[k].pc = "write"
    /\ covers \/ dir.data[persists[k].fd] # EmptyText
    /\ dir' = [dir EXCEPT !.data[persists[k].fd] =
                   IF covers THEN persists[k].text ELSE GarbledText]
    /\ persists' = [persists EXCEPT ![k].pc = "rename",
                                    ![k].calls = Append(@, "rename")]
    /\ UNCHANGED <<stats, persistTimer, timeouts, initialized, elapsed, hist,
                   dailyVars, modelVars>>

\* fsp.rename of run k: ANALYTICS_FILE names the inode ANALYTICS_FILE.tmp
\* named; it fails when the temporary path names nothing.
PersistRename(k) ==
    /\ k \in 1..Len(persists)
    /\ persists[k].pc = "rename"
    /\ IF dir.tmp = 0
       THEN /\ persists' = [persists EXCEPT ![k].pc = "done", ![k].err = TRUE]
            /\ UNCHANGED dir
       ELSE /\ dir' = [dir EXCEPT !.file = dir.tmp, !.tmp = 0]
            /\ persists' = [persists EXCEPT ![k].pc = "done"]
    /\ UNCHANGED <<stats, persistTimer, timeouts, initialized, elapsed, hist,
                   dailyVars, modelVars>>

\* getSnapshotAndReset(currentServerCount) up to `await _persistNow()`; its
\* promise resolves with the snapshot when that run is done.
GetSnapshotAndReset(currentServerCount) ==
    /\ initialized
    /\ hist.resets < MaxResets
    /\ stats' = resetStats(currentServerCount, elapsed)
    /\ timeouts' = IF persistTimer # 0 THEN timeouts \ {persistTimer} ELSE timeouts
    /\ persistTimer' = 0
    /\ persists' = Append(persists,
                          persistNow(resetStats(currentServerCount, elapsed),
                                     hist.resets + 1, "reset"))
    /\ hist' = [hist EXCEPT !.resets = @ + 1,
                            !.arg = currentServerCount,
                            !.snapshot = <<snapshotOf(stats, currentServerCount)>>,
                            !.mutAt = <<>>,
                            !.captured = 0,
                            !.cancelled = IF persistTimer # 0 THEN @ + 1 ELSE @]
    /\ UNCHANGED <<initialized, elapsed, dir, dailyVars, modelVars>>

CacheIdle ==
    /\ apiKeySet = TRUE
    /\ now = StartTime
    /\ cacheFile = NoFile
    /\ tmpFile = NoFile
    /\ memoryCache = <<>>
    /\ mirrorSrc = NoMirrorSrc
    /\ refreshInFlight = 0
    /\ refreshes = [r \in RefreshIds |-> UnusedRefresh]
    /\ proc = [p \in Procs |-> IdleProc]
    /\ net = [category |-> 0, unfiltered |-> 0]
    /\ fetched = NoFetch
    /\ rankedOut = NotRanked

InitStore == CacheIdle /\ StoreInit(InitialDisks) /\ DailyIdle

\* The counters: what the calls that change _stats make of them.  The timer
\* and the runs of _persistNow read _stats and never write it.
NextStore ==
    \/ Load
    \/ \E commandName \in CommandNames : RecordCommand(commandName)
    \/ \E guildId \in GuildIds : RecordChat(guildId)
    \/ \E c \in LlmCalls : RecordLlmCall(c.success, c.modelName)
    \/ RecordUptimeTick
    \/ \E n \in ServerCounts : GetSnapshotAndReset(n)

SpecStore == InitStore /\ [][NextStore]_vars

InitPersist == CacheIdle /\ StoreInit({NoDisk}) /\ DailyIdle

\* Persistence: the debounce timer, the runs of _persistNow and the file
\* system, under record* calls at any time and one reset (the weekly report)
\* at any time.  Which counter a record* call changes, and which number the
\* reset is given, make no difference to it.
NextPersist ==
    \/ Load
    \/ RecordUptimeTick
    \/ \E h \in timeouts : TimerFire(h)
    \/ Elapse
    \/ \E k \in 1..Len(persists), opens \in BOOLEAN : PersistOpen(k, opens)
    \/ \E k \in 1..Len(persists), covers \in BOOLEAN : PersistWrite(k, covers)
    \/ \E k \in 1..Len(persists) : PersistRename(k)
    \/ \E n \in ServerCounts :
          n.t = "number" /\ hist.resets = 0 /\ GetSnapshotAndReset(n)

SpecPersist == InitPersist /\ [][NextPersist]_vars

\* ------------------------------------------------------------------------
\* commands/daily.js: actions
\* ------------------------------------------------------------------------

\* execute(interaction) of execution e: fs.readFile is called.
Execute(e, guild, channel) ==
    /\ execs[e].pc = "idle"
    /\ \A d \in 1..(e - 1) : execs[d].pc # "idle"
    /\ execs' = [execs EXCEPT ![e] =
                    [IdleExec EXCEPT !.pc = "read", !.guild = guild,
                                     !.channel = channel]]
    /\ UNCHANGED <<dailyFile, analyticsVars, modelVars>>

\* The callback of fs.readFile of execution e.  On an error it logs and
\* returns; JSON.parse throws on a text that is no JSON; otherwise
\* registerChannel runs, which calls fs.writeFile and returns, and the reply
\* is chosen by what it returned.
ReadCallback(e, readable) ==
    /\ execs[e].pc = "read"
    /\ LET me == execs[e]
           reg == registerChannel(me.guild, me.channel, dailyFile.list)
       IN  execs' = [execs EXCEPT ![e] =
              IF ~readable THEN [me EXCEPT !.pc = "done"]
              ELSE IF dailyFile.kind # "json"
              THEN [me EXCEPT !.pc = "done", !.threw = TRUE]
              ELSE [me EXCEPT !.pc = "open", !.output = reg.output,
                              !.added = reg.added, !.jsonData = reg.jsonData,
                              !.reply = IF reg.output = "ok" THEN "registered"
                                        ELSE IF reg.output = "rem" THEN "unregistered"
                                        ELSE "oops"]]
    /\ UNCHANGED <<dailyFile, analyticsVars, modelVars>>

\* fs.writeFile of execution e opens daily_list.json for writing, which cuts
\* it to length 0; or the open fails and the callback gets the error.
WriteOpen(e, opens) ==
    /\ execs[e].pc = "open"
    /\ IF opens
       THEN /\ dailyFile' = EmptyList
            /\ execs' = [execs EXCEPT ![e].pc = "write"]
       ELSE /\ execs' = [execs EXCEPT ![e].pc = "done", ![e].writeFailed = TRUE,
                                      ![e].late = "err"]
            /\ UNCHANGED dailyFile
    /\ UNCHANGED <<analyticsVars, modelVars>>

\* fs.writeFile of execution e writes its text at offset 0 and its callback
\* runs without an error.  Over a text another descriptor has written
\* meanwhile, the file holds the new text when that is at least as long, and
\* a mix of the two otherwise.
WriteCallback(e, covers) ==
    /\ execs[e].pc = "write"
    /\ covers \/ dailyFile # EmptyList
    /\ dailyFile' = IF covers THEN execs[e].jsonData ELSE GarbledList
    /\ execs' = [execs EXCEPT ![e].pc = "done"]
    /\ UNCHANGED <<analyticsVars, modelVars>>

InitDaily == CacheIdle /\ StoreIdle /\ DailyInit(InitialLists)

NextDaily ==
    \/ \E e \in Execs, channel \in Channels : Execute(e, GUILD_1, channel)
    \/ \E e \in Execs, readable \in BOOLEAN : ReadCallback(e, readable)
    \/ \E e \in Execs, opens \in BOOLEAN : WriteOpen(e, opens)
    \/ \E e \in Execs, covers \in BOOLEAN : WriteCallback(e, covers)

\* /daily used NumExecs times, the executions overlapping in every way.
SpecDaily == InitDaily /\ [][NextDaily]_vars

\* ------------------------------------------------------------------------
\* Properties
\* ------------------------------------------------------------------------

Reads == {p \in Procs : proc[p].op = "getFreeModels"}
Chats == {p \in Procs : proc[p].op = "chat"}
NoDuplicates(s) == \A i, j \in 1..Len(s) : i # j => s[i] # s[j]

\* A cache record as the data model defines it: numeric timestamp, non-empty
\* list, every entry a non-empty string.
StructurallyValid(file) ==
    /\ file.kind = "json"
    /\ file.fetchedAtIsNumber
    /\ file.modelsIsArray /\ file.models # <<>>
    /\ \A i \in 1..Len(file.models) :
          file.models[i].t = "string" /\ file.models[i].v # ""

\* Caller p makes a getFreeModels() call in this step.
ReadsNow(p) == proc[p].pc = "idle" /\ proc'[p].op = "getFreeModels"

\* C11: a getFreeModels() call made with a populated mirror returns the
\* mirror's list at once, does not run readCache, sends no request, and leaves
\* the mirror, both files, the marker and the refresh operations as they were.
C11_MirrorHitTouchesNothing ==
    [][\A p \in Procs :
          ReadsNow(p) /\ memoryCache # <<>>
          => /\ proc'[p].pc = "done"
             /\ proc'[p].res = Value(memoryCache[1])
             /\ ~proc'[p].diskRead
             /\ net' = net
             /\ memoryCache' = memoryCache
             /\ cacheFile' = cacheFile /\ tmpFile' = tmpFile
             /\ refreshInFlight' = refreshInFlight /\ refreshes' = refreshes]_vars

\* A read has been answered from the mirror while a refresh is pending.
C11_Witness ==
    \E p \in Reads :
        /\ proc[p].pc = "done" /\ proc[p].src = "mirror"
        /\ proc[p].res = Value(memoryCache[1])
        /\ ~proc[p].diskRead
        /\ refreshInFlight # 0

\* C12: without the key no request is ever sent, neither to the catalog nor
\* to the chat-completion endpoint; a refreshModels() call rejects with the
\* configuration error and a chat() run ends in the exhaustion error, every
\* candidate of its waterfall having failed on the configuration error.
C12_NoKeyNoRequest ==
    ~apiKeySet
    => /\ net = [category |-> 0, unfiltered |-> 0]
       /\ \A r \in RefreshIds :
             refreshes[r].rp # "pending" /\ refreshes[r].all # "pending"
       /\ \A p \in Procs :
             /\ proc[p].posts = 0 /\ proc[p].pc # "post"
             /\ proc[p].pc = "done" /\ proc[p].op = "cron"
                   => proc[p].got = Error(ERR_NO_KEY)
             /\ proc[p].pc = "done" /\ proc[p].op = "chat"
                   => /\ proc[p].res = Error(ERR_EXHAUSTED)
                      /\ proc[p].invoked = proc[p].waterfall
                      /\ \A j \in 1..Len(proc[p].message) :
                            proc[p].message[j].reason = ERR_NO_KEY

\* Without the key a refresh has failed and a chat() run has gone through two
\* candidates.
C12_Witness ==
    /\ ~apiKeySet
    /\ \E r \in RefreshIds : refreshes[r].st = "settled"
    /\ \E p \in Chats :
          /\ proc[p].pc = "done" /\ Len(proc[p].invoked) = 2
          /\ proc[p].res.kind = "error"

\* C13 as claimed: without the key, a getFreeModels() call that fails on the
\* configuration error has run no readCache and sent no request.
C13_NoIOBeforeConfigError ==
    ~apiKeySet
    => \A p \in Reads :
          proc[p].res = Error(ERR_NO_KEY)
          => ~proc[p].diskRead /\ net = [category |-> 0, unfiltered |-> 0]

\* C13 as amended: without the key a getFreeModels() call sends no request;
\* with a populated mirror it returns the mirror, with a cold mirror it runs
\* readCache first and returns the record's list when the record is valid,
\* and it fails, on the configuration error, only after that read.
C13_NoRequestBeforeConfigError ==
    ~apiKeySet
    => /\ net = [category |-> 0, unfiltered |-> 0]
       /\ \A p \in Reads :
             proc[p].pc = "done"
             => /\ proc[p].src = "mirror" => ~proc[p].diskRead /\ proc[p].res.kind = "value"
                /\ proc[p].src = "disk" => proc[p].diskRead /\ proc[p].res.kind = "value"
                /\ proc[p].src = "refresh"
                      => proc[p].diskRead /\ proc[p].res = Error(ERR_NO_KEY)

\* Without the key a read has failed on the configuration error, the cache
\* file being absent.
C13_Witness ==
    /\ ~apiKeySet
    /\ cacheFile = NoFile
    /\ \E p \in Reads :
          /\ proc[p].pc = "done" /\ proc[p].res = Error(ERR_NO_KEY)
          /\ proc[p].diskRead

\* Refresh r runs the rest of its IIFE in this step.
BodyStep(r) == refreshes[r].st = "running" /\ refreshes'[r].st = "body"

\* Caller p resumes in this step from the refresh it awaited.
ResumesNow(p) == proc[p].pc = "await" /\ proc'[p].pc # "await"

\* What ranking catalog payload a alone, nothing tagged, comes to.
UntaggedResult(a) ==
    IF rankModels(a, {}) = <<>> THEN Error(ERR_NO_MODELS)
    ELSE Value(rankModels(a, {}))

\* C14: when the unfiltered fetch has failed the refresh rejects with that
\* fetch's error, whatever the state of the category fetch, and changes
\* neither the mirror nor the file; when the category fetch has failed and the
\* unfiltered one has not, the outcome is that of ranking the unfiltered
\* payload alone with nothing tagged; every caller awaiting the refresh
\* receives its outcome.
C14_CategoryTolerantUnfilteredFatal ==
    [][/\ \A r \in RefreshIds :
             BodyStep(r)
             => /\ refreshes[r].all = "failed"
                      => /\ refreshes'[r].outcome = Error(refreshes[r].allErr)
                         /\ refreshes[r].allErr \in {ERR_NETWORK, ERR_NO_KEY}
                         /\ memoryCache' = memoryCache /\ cacheFile' = cacheFile
                /\ refreshes[r].all = "ok" /\ refreshes[r].rp = "failed"
                      => refreshes'[r].outcome \in {UntaggedResult(a) : a \in AllCatalogs}
       /\ \A p \in Procs :
             ResumesNow(p) => proc'[p].got = refreshes[proc[p].waitOn].outcome]_vars

\* The category fetch failed and a caller awaits a refresh that has ranked the
\* newer untagged model first.
C14_Witness ==
    \E r \in RefreshIds, p \in Procs :
        /\ refreshes[r].st = "body"
        /\ refreshes[r].outcome = Value(<<Str(MODEL_A), Str(MODEL_B)>>)
        /\ proc[p].pc = "await" /\ proc[p].waitOn = r

\* C15: no refresh resolves with an empty list, and no empty list is stored
\* in the mirror, written to either file by a refresh, or received by a caller
\* as a refresh's result.
C15_NoEmptyRanking ==
    /\ \A r \in RefreshIds : refreshes[r].outcome # Value(<<>>)
    /\ memoryCache # <<<<>>>>
    /\ cacheFile.kind = "json" /\ cacheFile.fetchedAt >= StartTime
          => cacheFile.models # <<>>
    /\ tmpFile.kind = "json" => tmpFile.models # <<>>
    /\ \A p \in Procs : proc[p].got # Value(<<>>) /\ proc[p].res # Value(<<>>)

\* A refresh whose catalog held no free model has failed with the
\* no-suitable-models error, and nothing was stored.
C15_Witness ==
    \E r \in RefreshIds, p \in Procs :
        /\ refreshes[r].st = "settled"
        /\ proc[p].pc = "done" /\ proc[p].waitOn = r
        /\ proc[p].got = Error(ERR_NO_MODELS)
        /\ memoryCache = <<>> /\ cacheFile = NoFile /\ tmpFile = NoFile

\* C16: a refresh whose fetches and ranking succeeded resolves with the
\* ranked list and sets the mirror to it whether or not the record reached
\* the file; its callers receive that list, later reads return the mirror,
\* and no caller ever receives a file-system error.
C16_PersistenceFailureIsSilent ==
    [][/\ \A r \in RefreshIds :
             BodyStep(r) /\ refreshes[r].all = "ok"
             => LET o == refreshes'[r].outcome
                IN  /\ o.kind = "error" => o.err = ERR_NO_MODELS
                    /\ o.kind = "value"
                          => /\ memoryCache' = <<o.list>>
                             /\ cacheFile' \in {cacheFile, Record(now, o.list)}
       /\ \A p \in Procs :
             /\ ResumesNow(p) => proc'[p].got = refreshes[proc[p].waitOn].outcome
             /\ ReadsNow(p) /\ memoryCache # <<>>
                   => proc'[p].res = Value(memoryCache[1])
             /\ proc'[p].got.err # ERR_FS /\ proc'[p].res.err # ERR_FS]_vars

\* The rename failed, the canonical file is still absent, and a later read
\* has returned the refreshed list from the mirror.
C16_Witness ==
    \E p \in Reads :
        /\ proc[p].pc = "done" /\ proc[p].src = "mirror" /\ proc[p].origin = "refresh"
        /\ tmpFile.kind = "json" /\ proc[p].res = Value(tmpFile.models)
        /\ cacheFile = NoFile

\* C17: every step leaves CACHE_FILE as it was or replaces it with the
\* complete record of the list a refresh has just ranked; a write that fails
\* or stops half-way touches the temporary file only.
C17_CanonicalFileOldOrNew ==
    [][\/ cacheFile' = cacheFile
       \/ \E r \in RefreshIds :
             /\ BodyStep(r)
             /\ refreshes'[r].outcome.kind = "value"
             /\ cacheFile' = Record(now, refreshes'[r].outcome.list)
             /\ StructurallyValid(cacheFile')]_vars

\* A write has stopped half-way: the temporary file is partial and the
\* canonical file still holds the previous record.
C17_Witness ==
    /\ tmpFile = Partial
    /\ cacheFile = FreshRecord
    /\ \E r \in RefreshIds : refreshes[r].st = "body"

\* Caller p makes, in this step, a call that goes to refreshModels and awaits.
RequestsRefreshNow(p) == proc[p].pc = "idle" /\ proc'[p].pc = "await"

\* C18: the marker names a refresh exactly while that refresh is unsettled;
\* a marker that is set is eventually cleared (the refresh it named being
\* settled by then, whatever its outcome); and a refresh request made while the marker
\* is clear starts a fetch sequence of its own.
C18_MarkerClearedOnSettle ==
    /\ [](\A r \in RefreshIds : refreshInFlight = r <=> Unsettled(r))
    /\ (refreshInFlight # 0) ~> (refreshInFlight = 0)
    /\ [][\A p \in Procs :
             RequestsRefreshNow(p) /\ refreshInFlight = 0
             => LET r == proc'[p].waitOn
                IN  /\ refreshes[r].st = "unused" /\ refreshes'[r].st = "running"
                    /\ refreshInFlight' = r
                    /\ apiKeySet => /\ net'.category = net.category + 1
                                    /\ net'.unfiltered = net.unfiltered + 1]_vars

\* A first refresh has settled in failure, the marker was cleared, and a
\* second request has started a second fetch sequence.
C18_Witness ==
    \E r1, r2 \in RefreshIds :
        /\ refreshes[r1].st = "settled"
        /\ refreshes[r2].st = "running" /\ refreshInFlight = r2
        /\ memoryCache = <<>>
        /\ net = [category |-> 2, unfiltered |-> 2]

\* The mirror is cleared in this step.
ClearsNow ==
    \/ memoryCache # <<>> /\ memoryCache' = <<>>
    \/ ~mirrorSrc.afterClear /\ mirrorSrc'.afterClear

\* C19: a step that clears the mirror leaves both files, the marker, the
\* refresh operations with their requests, and every caller as they were.
C19_ClearTouchesMirrorOnly ==
    [][ClearsNow
       => /\ memoryCache' = <<>>
          /\ cacheFile' = cacheFile /\ tmpFile' = tmpFile
          /\ refreshInFlight' = refreshInFlight
          /\ refreshes' = refreshes
          /\ net' = net
          /\ proc' = proc]_vars

\* The mirror a first refresh had populated has been cleared while a second
\* refresh is pending, and that refresh is still pending.
C19_Witness ==
    /\ mirrorSrc.afterClear /\ memoryCache = <<>>
    /\ cacheFile.kind = "json" /\ cacheFile.fetchedAt >= StartTime
    /\ refreshInFlight # 0 /\ Unsettled(refreshInFlight)
    /\ \E p \in Procs : proc[p].pc = "await" /\ proc[p].waitOn = refreshInFlight

\* C20: the first getFreeModels() call made after clearMemoryCache() runs
\* readCache, whatever happened between the clear and the call.
C20_ReadAfterClearGoesToDisk ==
    [][\A p \in Procs :
          ReadsNow(p) /\ mirrorSrc.afterClear => proc'[p].diskRead]_vars

\* What the ranking was given, and what the claims about it speak of.
Merged == fetched.roleplayRaw \o fetched.allRaw

TaggedIds == {fetched.roleplayRaw[i].id : i \in 1..Len(fetched.roleplayRaw)}

ZeroPrice(field) == field # <<>> /\ field[1] \in {"0", "0.0"}

Eligible(m) ==
    /\ m.id # ""
    /\ ZeroPrice(m.prompt) /\ ZeroPrice(m.completion)
    /\ m.output_modalities # <<>>
    /\ Range(m.output_modalities) = {"text"}

EligibleAt == {i \in 1..Len(Merged) : Eligible(Merged[i])}

\* The eligible descriptors, one for each identifier: its first eligible copy.
Candidates ==
    {Merged[i] : i \in {k \in EligibleAt :
                          \A j \in EligibleAt : Merged[j].id = Merged[k].id => k <= j}}

CandidateOf(id) == CHOOSE c \in Candidates : c.id = id

Tagged(m) == m.id \in TaggedIds

SameContext(a, b) == a.context_length = b.context_length

SmallerContext(a, b) ==
    /\ a.context_length # <<>>
    /\ b.context_length = <<>> \/ a.context_length[1] < b.context_length[1]

\* The order the four levels define: a ranks strictly better than b.
RanksBetter(a, b) ==
    IF Tagged(a) # Tagged(b) THEN Tagged(a)
    ELSE IF OrZero(a.created) # OrZero(b.created)
         THEN OrZero(a.created) > OrZero(b.created)
    ELSE IF ~SameContext(a, b) THEN SmallerContext(a, b)
    ELSE LexRank(a.id) < LexRank(b.id)

PlaceOf(c) == 1 + Cardinality({d \in Candidates : RanksBetter(d, c)})

SortedCandidates ==
    [i \in 1..Cardinality(Candidates) |->
        Str((CHOOSE c \in Candidates : PlaceOf(c) = i).id)]

\* C21: for every pair of fetched lists, the list the ranking produces has no
\* identifier twice and at most MAX_MODELS entries.
C21_RankedDistinctAndCapped ==
    rankedOut.done =>
        /\ NoDuplicates(rankedOut.ranked)
        /\ Len(rankedOut.ranked) <= MAX_MODELS

\* The ranking has run on lists holding more than MAX_MODELS eligible
\* identifiers, one of them twice.
C21_Witness ==
    /\ rankedOut.done
    /\ Cardinality(Candidates) > MAX_MODELS
    /\ Cardinality(EligibleAt) > Cardinality(Candidates)
    /\ Len(rankedOut.ranked) = MAX_MODELS

\* C22: every identifier the ranking puts out is a non-empty string carried
\* by a fetched descriptor with both prices present and zero and a non-empty
\* modality set holding only "text"; an identifier whose descriptors all lack
\* a price, have a non-zero price, an empty modality set or a modality other
\* than text is never put out.
C22_OnlyFreeTextOnly ==
    rankedOut.done =>
        /\ \A i \in 1..Len(rankedOut.ranked) :
              /\ rankedOut.ranked[i].t = "string"
              /\ \E k \in 1..Len(Merged) :
                    /\ Merged[k].id = rankedOut.ranked[i].v
                    /\ Eligible(Merged[k])
        /\ \A k \in 1..Len(Merged) :
              (\A j \in 1..Len(Merged) : Merged[j].id = Merged[k].id => ~Eligible(Merged[j]))
                  => Str(Merged[k].id) \notin Range(rankedOut.ranked)

\* The ranking has run on lists holding a descriptor with text mixed with
\* another modality and one without a price, and has put out the others.
C22_Witness ==
    /\ rankedOut.done
    /\ D_MIX \in Range(Merged)
    /\ D_NOPRICE \in Range(Merged)
    /\ Len(rankedOut.ranked) = MAX_MODELS

\* C23: the ranking's output is the first MAX_MODELS of the eligible,
\* deduplicated descriptors sorted by tagged first, newer first, smaller
\* context first, identifier ascending.
C23_OutputIsSortedPrefix ==
    rankedOut.done => rankedOut.ranked = Slice(SortedCandidates, MAX_MODELS)

\* C24: two eligible descriptors with the same tag status, creation time and
\* context length (both absent counting as the same) come out with the
\* lexically smaller identifier first, and when the identifiers fetched are
\* distinct the output does not depend on their order in the input.
C24_IdentifierBreaksTies ==
    rankedOut.done =>
        /\ \A i, j \in 1..Len(rankedOut.ranked) :
              LET a == CandidateOf(rankedOut.ranked[i].v)
                  b == CandidateOf(rankedOut.ranked[j].v)
              IN  (/\ i < j
                   /\ Tagged(a) = Tagged(b)
                   /\ OrZero(a.created) = OrZero(b.created)
                   /\ SameContext(a, b))
                      => LexRank(a.id) < LexRank(b.id)
        /\ NoDuplicates([k \in 1..Len(Merged) |-> Merged[k].id])
              => rankedOut.ranked =
                   rankModels([k \in 1..Len(Merged) |-> Merged[Len(Merged) + 1 - k]],
                              TaggedIds)

NonEmptyStrings(list) ==
    /\ Len(list) >= 1
    /\ \A i \in 1..Len(list) : list[i].t = "string" /\ list[i].v # ""

RankedShape(list) ==
    /\ NonEmptyStrings(list)
    /\ Len(list) <= MAX_MODELS
    /\ NoDuplicates(list)

\* C25 as stated: the mirror is unpopulated or a list of 1 to MAX_MODELS
\* pairwise-distinct non-empty identifier strings, and so is every list
\* getFreeModels() returns, whatever the dir record holds.
C25_MirrorHasRankedShape ==
    /\ memoryCache # <<>> => RankedShape(memoryCache[1])
    /\ \A p \in Reads :
          (proc[p].pc = "done" /\ proc[p].res.kind = "value")
              => RankedShape(proc[p].res.list)

\* C25 amended: the mirror is unpopulated or a non-empty list of non-empty
\* strings, and so is every list getFreeModels() returns; a list that a
\* refresh of this process produced has at most MAX_MODELS entries, pairwise
\* distinct, while a list hydrated from the dir record is that record's
\* array as it stands.
C25_MirrorHoldsNonEmptyStrings ==
    /\ memoryCache # <<>> =>
          /\ NonEmptyStrings(memoryCache[1])
          /\ mirrorSrc.origin = "refresh" => RankedShape(memoryCache[1])
    /\ \A p \in Reads :
          (proc[p].pc = "done" /\ proc[p].res.kind = "value") =>
              /\ NonEmptyStrings(proc[p].res.list)
              /\ proc[p].src = "disk" => proc[p].res.list = cacheFile.models
              /\ (proc[p].src = "refresh"
                    \/ (proc[p].src = "mirror" /\ proc[p].origin = "refresh"))
                      => RankedShape(proc[p].res.list)

\* getFreeModels() has returned a record of more than MAX_MODELS entries that
\* it hydrated the mirror from.
C25_Witness ==
    \E p \in Reads :
        /\ proc[p].pc = "done"
        /\ proc[p].src = "disk"
        /\ Len(proc[p].res.list) > MAX_MODELS
        /\ memoryCache = <<proc[p].res.list>>

\* C26: under getFreeModels() calls only, at most one fetch sequence (one
\* unfiltered and one category request) is started within a 24-hour period:
\* here, at the instant the program started at.
C26_OneFetchPerDay ==
    now = StartTime => net.unfiltered <= 1 /\ net.category <= 1

Bots == {p \in Procs : proc[p].via = "sendPromptToAI"}

\* C27: an inference call through sendPromptToAI makes exactly one outcome
\* notification, (true, the model that replied) after a successful waterfall
\* and (false, no model) after an exhausted one, and returns the cleaned
\* reply or the fallback message accordingly, however the notification
\* settles afterwards.
C27_OneNotificationPerCall ==
    \A p \in Bots :
        /\ proc[p].pc # "replied" => proc[p].notified = <<>>
        /\ proc[p].pc = "replied" =>
              /\ Len(proc[p].notified) = 1
              /\ IF proc[p].res.kind = "value"
                 THEN /\ proc[p].notified[1].success
                      /\ proc[p].notified[1].model = proc[p].model
                      /\ proc[p].reply = cleanMessageContent(proc[p].text).content
                 ELSE /\ ~proc[p].notified[1].success
                      /\ proc[p].notified[1].model = NullValue
                      /\ proc[p].reply = TIRED_MESSAGE

Crons == {p \in Procs : proc[p].op = "cron"}

ListGiven(p) == IF proc[p].got.kind = "value" THEN proc[p].got.list ELSE <<>>

\* C28: the scheduled refresh ends without a rejection whether or not the
\* refresh failed, and a chat() run that has its list, taken after a failed
\* refresh as well, goes through the waterfall built from that list (or from
\* none) and the fallback.
C28_CronFailureIsLoggedOnly ==
    /\ \A p \in Crons : proc[p].pc = "done" => proc[p].res = NoOutcome
    /\ \A p \in Chats :
          proc[p].pc \in {"post", "done"} =>
              /\ proc[p].waterfall = BuildWaterfall(ListGiven(p), proc[p].fallbackModel)
              /\ Len(proc[p].invoked) >= 1
              /\ proc[p].invoked[1] = proc[p].waterfall[1]

\* The scheduled refresh failed and its job has ended; a chat() run made
\* afterwards, whose own refresh was the second one, has returned a reply.
C28_Witness ==
    \E p, q \in Procs :
        /\ proc[q].pc = "returned"
        /\ refreshes[1].st = "settled"
        /\ proc[p].op = "chat"
        /\ proc[p].waitOn = 2
        /\ proc[p].pc = "done"
        /\ proc[p].res.kind = "value"

\* A response with a first choice whose text is more than whitespace.
Acceptable(resp) == resp.kind = "reply" /\ resp.content \notin {"", "   "}

Rejected(answers) == {j \in 1..Len(answers) : ~Acceptable(answers[j])}

\* C29: a request of chat() counts as a success only when its response has a
\* choice with non-blank text; every other response is recorded as the
\* failure of its candidate and the waterfall advances; a reply text chat()
\* returns is non-blank and has no whitespace at either end.
C29_OnlyNonBlankRepliesSucceed ==
    \A p \in Chats :
        LET me == proc[p]
            n == Len(me.answers)
        IN  /\ \A j \in 1..(n - 1) : ~Acceptable(me.answers[j])
            /\ n > 0 => (Acceptable(me.answers[n]) <=>
                            (me.pc = "done" /\ me.res.kind = "value"))
            /\ apiKeySet =>
                  /\ Len(me.errors) = Cardinality(Rejected(me.answers))
                  /\ \A j \in 1..Len(me.errors) :
                        me.errors[j].model = me.waterfall[j]
                  /\ me.pc = "post" => me.idx = n + 1
            /\ (me.pc = "done" /\ me.res.kind = "value") =>
                  /\ n > 0
                  /\ me.text = Trim(me.answers[n].content)
                  /\ me.text \notin {"", "   ", " Great reply. "}
                  /\ Trim(me.text) = me.text

\* chat() has returned a reply after a response without a choice and a
\* response with blank text.
C29_Witness ==
    \E p \in Chats :
        /\ proc[p].pc = "done"
        /\ proc[p].res.kind = "value"
        /\ Len(proc[p].answers) = 3
        /\ proc[p].answers[1].kind = "no_choice"
        /\ proc[p].answers[2] = [kind |-> "reply", content |-> "   "]
        /\ proc[p].text = "Great reply."

\* C30: the candidates of a chat() run are requested in waterfall order, one
\* at a time: a request is sent only when every earlier request of the run
\* has settled as a failure, and at most one is outstanding.
C30_OneRequestAtATime ==
    \A p \in Chats :
        LET me == proc[p]
            outstanding == me.posts - Len(me.answers)
        IN  /\ Len(me.invoked) <= Len(me.waterfall)
            /\ \A j \in 1..Len(me.invoked) : me.invoked[j] = me.waterfall[j]
            /\ apiKeySet => me.posts = Len(me.invoked)
            /\ outstanding \in {0, 1}
            /\ outstanding = 1 <=> me.pc = "post"
            /\ outstanding = 1 =>
                  /\ Len(me.errors) = Len(me.answers)
                  /\ \A j \in 1..Len(me.answers) : ~Acceptable(me.answers[j])

\* The request for the third candidate is outstanding, the first two having
\* failed.
C30_Witness ==
    \E p \in Chats :
        /\ proc[p].pc = "post"
        /\ proc[p].posts = 3
        /\ Len(proc[p].answers) = 2
        /\ proc[p].idx = 3

ChatPending == \E p \in Chats : proc[p].pc \in {"await", "post"}

ChatEnded == \E p \in Chats : proc[p].pc = "done"

\* C31: with every request and dir operation settling in the end, a chat()
\* call ends, either returning a text and the identifier that produced it or
\* throwing the aggregated error; on the way its position in the waterfall
\* only moves forward and no candidate is invoked twice.
C31_ChatTerminates ==
    /\ ChatPending ~> ChatEnded
    /\ [](\A p \in Chats :
            /\ NoDuplicates(proc[p].invoked)
            /\ Len(proc[p].invoked) <= Len(proc[p].waterfall)
            /\ proc[p].pc = "done" =>
                  \/ /\ proc[p].res.kind = "value"
                     /\ proc[p].text # ""
                     /\ proc[p].model \in Range(proc[p].waterfall)
                  \/ /\ proc[p].res = Error(ERR_EXHAUSTED)
                     /\ Len(proc[p].errors) = Len(proc[p].waterfall)
                     /\ proc[p].message = proc[p].errors)
    /\ [][\A p \in Procs :
            (proc[p].op = "chat" /\ proc'[p].op = "chat") =>
                /\ proc'[p].idx >= proc[p].idx
                /\ proc[p].pc = "done" => proc'[p].pc = "done"]_vars

\* A chat() run has ended in the aggregated error after three candidates.
C31_Witness ==
    \E p \in Chats :
        /\ proc[p].pc = "done"
        /\ proc[p].res = Error(ERR_EXHAUSTED)
        /\ proc[p].posts = 3

\* The unfiltered list without the descriptors whose identifier the category
\* list carries too.
UntaggedOnly ==
    SelectSeq(fetched.allRaw, LAMBDA m : m.id \notin TaggedIds)

\* C36: when an identifier is in the category list and in the unfiltered
\* list, its category-list copy alone decides whether and where it is ranked:
\* the output is what the ranking gives with the unfiltered copies of such
\* identifiers left out.
C36_CategoryCopyDecides ==
    rankedOut.done =>
        rankedOut.ranked = rankModels(fetched.roleplayRaw \o UntaggedOnly, TaggedIds)

\* A step of refresh operation r that is not the step in which it succeeds.
FailingStep(r) ==
    /\ refreshes[r].st \in {"unused", "running", "body"}
    /\ refreshes'[r] # refreshes[r]
    /\ ~(refreshes[r].st = "running" /\ refreshes'[r].outcome.kind = "value")

\* C37: no step of a refresh that fails (no credential, unfiltered fetch
\* failed, nothing suitable to rank) changes the mirror, the cache file or
\* its temporary file: from its start to its settling, only its successful
\* completion writes them.
C37_FailedRefreshChangesNothing ==
    [][\A r \in RefreshIds :
          FailingStep(r) =>
              /\ memoryCache' = memoryCache
              /\ cacheFile' = cacheFile
              /\ tmpFile' = tmpFile]_vars

\* A refresh has failed while the mirror held a list and the file a record;
\* both are still there.
C37_Witness ==
    \E r \in RefreshIds :
        /\ refreshes[r].st = "body"
        /\ refreshes[r].outcome.kind = "error"
        /\ memoryCache # <<>>
        /\ cacheFile.kind = "json"

\* Catalog requests that have been sent and have not been answered.
Outstanding ==
    {<<r, which>> \in RefreshIds \X {"rp", "all"} : refreshes[r][which] = "pending"}

\* C38: at most two catalog requests are outstanding at any time, and none
\* while the marker of the pending refresh is clear.
C38_RequestsEndWithRefresh ==
    /\ Cardinality(Outstanding) <= 2
    /\ refreshInFlight = 0 => Outstanding = {}

Last(s) == s[Len(s)]

\* A step in which getSnapshotAndReset is called.
ResetStep == hist'.resets = hist.resets + 1

\* C32: getSnapshotAndReset(n) returns the fields of the store as they are
\* when it is called, with currentServerCount n, or null when n is no number;
\* it leaves every counter zero or empty and previousServerCount n (null when
\* n is no number); and the snapshot it returns has as previousServerCount
\* the number the reset before it was given.
C32_SnapshotThenReset ==
    [][ResetStep =>
          LET n == hist'.arg
              given == IF n.t = "number" THEN <<n.n>> ELSE <<>>
              snapshot == hist'.snapshot[1]
          IN  /\ \A f \in DOMAIN stats : snapshot[f] = stats[f]
              /\ snapshot.currentServerCount = given
              /\ stats'.commandCounts = EmptyMap
              /\ stats'.chatByGuild = EmptyMap
              /\ stats'.chatTotal = 0
              /\ stats'.llmSuccess = 0
              /\ stats'.llmFailure = 0
              /\ stats'.uptimeTicks = 0
              /\ stats'.previousServerCount = given
              /\ (hist.resets > 0 /\ hist.arg.t = "number")
                    => snapshot.previousServerCount = <<hist.arg.n>>]_vars

\* A second reset has returned counters recorded after the first, and the
\* number the first was given.
C32_Witness ==
    /\ hist.resets = 2
    /\ hist.snapshot[1].chatTotal > 0
    /\ hist.snapshot[1].commandCounts # EmptyMap
    /\ hist.snapshot[1].previousServerCount = <<5>>
    /\ hist.snapshot[1].currentServerCount = <<>>
    /\ stats.chatTotal = 0

\* The runs of _persistNow the debounce timer has started.
TimerRuns == {k \in 1..Len(persists) : persists[k].by = "timer"}

\* A step in which the debounce timer starts a run of _persistNow.
FlushStep ==
    /\ Len(persists') = Len(persists) + 1
    /\ Last(persists').by = "timer"

\* C33: at most one timeout is pending, due one debounce interval after the
\* latest record* call, so no write starts while calls follow each other
\* within the interval; every series of calls that kept a timeout pending
\* ends in exactly one run started by the timer (or in a reset clearing the
\* timeout), and a run makes one writeFile on the temporary path and then
\* one rename.
C33_OneWritePerBurst ==
    /\ [](/\ timeouts = (IF persistTimer = 0 THEN {} ELSE {persistTimer})
          /\ persistTimer # 0 =>
                hist.mutAt # <<>> /\ persistTimer = Last(hist.mutAt) + DEBOUNCE_MS
          /\ hist.bursts = hist.flushes + hist.cancelled
                             + (IF persistTimer = 0 THEN 0 ELSE 1)
          /\ Cardinality(TimerRuns) = hist.flushes
          /\ \A k \in 1..Len(persists) :
                /\ persists[k].calls \in {<<"writeFile">>, <<"writeFile", "rename">>}
                /\ (persists[k].pc = "done" /\ ~persists[k].err)
                      => persists[k].calls = <<"writeFile", "rename">>)
    /\ [][FlushStep =>
            /\ hist.mutAt # <<>>
            /\ elapsed >= Last(hist.mutAt) + DEBOUNCE_MS
            /\ Last(persists').text = stringify(stats, hist.resets)]_vars

\* Two record* calls less than the interval apart have been followed by one
\* run of the timer, which has put both on disk.
C33_Witness ==
    /\ hist.resets = 0
    /\ Len(hist.mutAt) = 2
    /\ hist.mutAt[2] - hist.mutAt[1] \in 1..(DEBOUNCE_MS - 1)
    /\ hist.flushes = 1
    /\ persistTimer = 0
    /\ \E k \in TimerRuns : persists[k].pc = "done" /\ ~persists[k].err
    /\ dir.file # 0
    /\ dir.data[dir.file] = stringify(stats, 0)
    /\ stats.uptimeTicks = 2

\* The record* calls whose change no run of _persistNow has taken up.
Waiting == (hist.captured + 1)..Len(hist.mutAt)

\* C34: a change waits at most DEBOUNCE_MS for the run of _persistNow that
\* takes it to disk, whatever record* calls follow it.
C34_WaitsAtMostDebounce ==
    \A i \in Waiting : elapsed <= hist.mutAt[i] + DEBOUNCE_MS

\* C35: registerChannel returns "ok" when it added the channel, "rem" when
\* it removed it, and "err" when the write of daily_list.json failed.
C35_ReturnTellsOutcome ==
    \A e \in Execs :
        (execs[e].pc = "done" /\ execs[e].output # "") =>
            execs[e].output = (IF execs[e].writeFailed THEN "err"
                               ELSE IF execs[e].added THEN "ok" ELSE "rem")

\* The runs of _persistNow a reset made that went through without an error,
\* every run started before them being over too.
SettledResets ==
    {k \in 1..Len(persists) :
        /\ persists[k].by = "reset"
        /\ persists[k].pc = "done"
        /\ ~persists[k].err
        /\ \A j \in 1..(k - 1) : persists[j].pc = "done"}

\* C39: once a reset has resolved and the runs of _persistNow started before
\* it are over, ANALYTICS_FILE does not hold a text made before the reset.
C39_NoStaleFileAfterReset ==
    \A k \in SettledResets :
        /\ dir.file # 0
        /\ ~(/\ dir.data[dir.file].kind = "json"
              /\ dir.data[dir.file].epoch < persists[k].text.epoch)

\* The executions of /daily that were acknowledged, their write over, and
\* that alone toggled their channel.
Acknowledged ==
    {e \in Execs :
        /\ execs[e].pc = "done"
        /\ execs[e].reply \in {"registered", "unregistered"}
        /\ ~execs[e].writeFailed
        /\ \A d \in Execs \ {e} :
              ~(execs[d].guild = execs[e].guild /\ execs[d].channel = execs[e].channel)}

Listed(text, guild, channel) ==
    /\ guild \in DOMAIN text.list
    /\ Includes(text.list[guild], channel)

\* C40: when every execution is over and daily_list.json is a JSON text, the
\* file has every channel an acknowledged execution added and none an
\* acknowledged execution removed.
C40_NoToggleLost ==
    (/\ \A e \in Execs : execs[e].pc = "done"
     /\ dailyFile.kind = "json")
        => \A e \in Acknowledged :
              Listed(dailyFile, execs[e].guild, execs[e].channel) <=> execs[e].added

\* C1: getFreeModels() calls that are pending together on a cold cache all
\* await one and the same refresh operation, a refresh operation sends at most
\* one category request and one unfiltered request, and the callers of one
\* operation all return the same outcome.
C1_SingleFlightColdReads ==
    /\ \A p, q \in Reads :
          proc[p].pc = "await" /\ proc[q].pc = "await"
             => proc[p].waitOn = proc[q].waitOn
    /\ net.category <= Cardinality(UsedRefreshes)
    /\ net.unfiltered <= Cardinality(UsedRefreshes)
    /\ \A p, q \in Reads :
          /\ proc[p].pc = "done" /\ proc[q].pc = "done"
          /\ proc[p].src = "refresh" /\ proc[q].src = "refresh"
          /\ proc[p].waitOn = proc[q].waitOn
          => proc[p].res = proc[q].res

\* Two overlapping cold reads have returned the list of one fetch sequence.
C1_Witness ==
    \E p, q \in Reads :
        /\ p # q
        /\ proc[p].pc = "done" /\ proc[q].pc = "done"
        /\ proc[p].src = "refresh" /\ proc[q].src = "refresh"
        /\ proc[p].waitOn = proc[q].waitOn
        /\ proc[p].res.kind = "value" /\ proc[p].res = proc[q].res
        /\ net = [category |-> 1, unfiltered |-> 1]

\* C2: at most one refresh operation is in progress, it is the one the marker
\* names, every caller awaiting a refresh awaits that one, and a caller that
\* joined a refresh gets that operation's outcome.
C2_OneRefreshInProgress ==
    /\ Cardinality({r \in RefreshIds : Unsettled(r)}) <= 1
    /\ \A r \in RefreshIds : Unsettled(r) => refreshInFlight = r
    /\ \A p \in Procs :
          proc[p].pc = "await"
             => Unsettled(proc[p].waitOn) /\ proc[p].waitOn = refreshInFlight
    /\ \A p \in Procs :
          proc[p].pc = "done" /\ proc[p].src = "refresh"
             => proc[p].got = refreshes[proc[p].waitOn].outcome

\* A forced or scheduled refresh and a miss-triggered read have shared one
\* operation and its list.
C2_Witness ==
    \E p, q \in Procs :
        /\ proc[p].op \in {"refreshModels", "cron"} /\ proc[q].op = "getFreeModels"
        /\ proc[p].pc = "done" /\ proc[q].pc = "done"
        /\ proc[q].src = "refresh" /\ proc[p].waitOn = proc[q].waitOn
        /\ proc[p].got.kind = "value" /\ proc[p].got = proc[q].got

\* C3: a chat() run that returns has invoked the candidates of its waterfall
\* in order up to the one it returns, all before it failed, it returns that
\* one's reply and identifier, and when every ranked candidate failed the
\* identifier is the fallback's.
C3_FirstSuccessWins ==
    \A p \in Chats :
        proc[p].pc = "done" /\ proc[p].res.kind = "value"
        => LET me == proc[p]
               i == Len(me.invoked)
           IN  /\ i >= 1 /\ me.invoked = SubSeq(me.waterfall, 1, i)
               /\ me.model = me.waterfall[i]
               /\ me.posts = i
               /\ me.text = "Great reply."
               /\ Len(me.errors) = i - 1
               /\ \A j \in 1..(i - 1) : me.errors[j].model = me.waterfall[j]
               /\ (Range(me.freeModels) \subseteq {me.errors[j].model : j \in 1..(i - 1)})
                     => me.model = Str(me.fallbackModel)

\* The fallback has answered after two ranked candidates failed.
C3_Witness ==
    \E p \in Chats :
        /\ proc[p].pc = "done" /\ proc[p].res.kind = "value"
        /\ Len(proc[p].freeModels) = 2 /\ Len(proc[p].invoked) = 3
        /\ Str(proc[p].fallbackModel) \notin Range(proc[p].freeModels)
        /\ proc[p].model = Str(proc[p].fallbackModel)

\* C4: chat() raises the exhaustion error exactly when every candidate of the
\* waterfall has failed, and the message then lists the candidates in the
\* order they were tried, each with its reason.
C4_ExhaustionIffAllFailed ==
    \A p \in Chats :
        proc[p].pc = "done"
        => LET me == proc[p]
           IN  /\ me.res.kind = "error"
                     <=> {me.errors[j].model : j \in 1..Len(me.errors)} = Range(me.waterfall)
               /\ me.res.kind = "error"
                     => /\ me.res.err = ERR_EXHAUSTED
                        /\ me.invoked = me.waterfall
                        /\ Len(me.message) = Len(me.invoked)
                        /\ \A j \in 1..Len(me.message) :
                              /\ me.message[j].model = me.invoked[j]
                              /\ me.message[j].reason # ""

\* Three candidates have failed, for different reasons.
C4_Witness ==
    \E p \in Chats :
        /\ proc[p].pc = "done" /\ proc[p].res.kind = "error"
        /\ Len(proc[p].message) = 3
        /\ proc[p].message[1].reason # proc[p].message[2].reason

\* C5: when getFreeModels() rejects, the chat() run goes on with an empty
\* list: its waterfall is the fallback alone, callModel is invoked once, on
\* the fallback, and the run ends in that call's reply or in the exhaustion
\* error, never in the error getFreeModels raised.
C5_ListFailureFallsBack ==
    \A p \in Chats :
        proc[p].got.kind = "error"
        => LET me == proc[p]
           IN  /\ me.pc \in {"post", "done"}
               /\ me.freeModels = <<>>
               /\ me.invoked = <<Str(me.fallbackModel)>>
               /\ me.posts = (IF apiKeySet THEN 1 ELSE 0)
               /\ me.pc = "done" /\ me.res.kind = "error" => me.res.err = ERR_EXHAUSTED
               /\ me.pc = "done" /\ me.res.kind = "value" => me.model = Str(me.fallbackModel)

\* The catalog was unreachable and the fallback has answered.
C5_Witness ==
    \E p \in Chats :
        /\ proc[p].got = Error(ERR_NETWORK)
        /\ proc[p].pc = "done" /\ proc[p].res.kind = "value"
        /\ proc[p].posts = 1

\* C6: within one chat() run no identifier is invoked twice.
C6_NoCandidateTwice ==
    \A p \in Chats : NoDuplicates(proc[p].invoked)

\* A run whose ranked list holds the fallback has tried every candidate.
C6_Witness ==
    \E p \in Chats :
        /\ proc[p].pc = "done" /\ proc[p].res.kind = "error"
        /\ Str(proc[p].fallbackModel) \in Range(proc[p].freeModels)
        /\ Len(proc[p].freeModels) >= 2

\* C7: in every chat() run the fallback is invoked only after every other
\* candidate of the run has been invoked and has failed.
C7_FallbackTriedLast ==
    \A p \in Chats :
        \A i \in 1..Len(proc[p].invoked) :
            proc[p].invoked[i] = Str(proc[p].fallbackModel)
            => \A m \in Range(proc[p].freeModels) \ {Str(proc[p].fallbackModel)} :
                  \E j \in 1..Len(proc[p].errors) :
                      j < i /\ proc[p].errors[j].model = m

\* C8 as claimed: no list is returned, from the dir record or from a mirror
\* populated from it, when its record is 24 hours old or older at the call.
C8_NoExpiredRecordServed ==
    \A p \in Reads :
        /\ proc[p].pc = "done"
        /\ \/ proc[p].src = "disk"
           \/ proc[p].src = "mirror" /\ proc[p].origin = "disk"
        => proc[p].age < CACHE_TTL_MS

\* C8 as amended: no list is returned from a dir record that is 24 hours old
\* or older at the call, and the mirror is populated from dir only from a
\* record younger than that (a list served from the mirror is not checked).
C8_NoExpiredRecordRead ==
    /\ \A p \in Reads \cup Chats :
          proc[p].src = "disk" => proc[p].age < CACHE_TTL_MS
    /\ mirrorSrc.origin = "disk" => mirrorSrc.fillAge < CACHE_TTL_MS

\* A read has been answered by a refresh while the record on dir, valid in
\* structure, is exactly 24 hours old.
C8_Witness ==
    \E p \in Reads :
        /\ proc[p].pc = "done" /\ proc[p].src = "refresh"
        /\ StructurallyValid(cacheFile)
        /\ now - cacheFile.fetchedAt = CACHE_TTL_MS
        /\ cacheFile.fetchedAt = ExpiredAtStart

\* C9: a getFreeModels() call made with a cold mirror and a dir record that
\* is valid in structure and younger than 24 hours returns that record's
\* list, populates the mirror with it, and sends no request and starts no
\* refresh.
C9_FreshDiskRecordServed ==
    [][\A p \in Procs :
          /\ ReadsNow(p)
          /\ memoryCache = <<>>
          /\ StructurallyValid(cacheFile)
          /\ now - cacheFile.fetchedAt < CACHE_TTL_MS
          => /\ proc'[p].pc = "done"
             /\ proc'[p].res = Value(cacheFile.models)
             /\ memoryCache' = <<cacheFile.models>>
             /\ net' = net
             /\ refreshes' = refreshes /\ refreshInFlight' = refreshInFlight
             /\ cacheFile' = cacheFile]_vars

\* A read has been answered from the dir record, with no request sent.
C9_Witness ==
    \E p \in Reads :
        /\ proc[p].pc = "done" /\ proc[p].src = "disk"
        /\ proc[p].res = Value(cacheFile.models)
        /\ memoryCache = <<cacheFile.models>>
        /\ net = [category |-> 0, unfiltered |-> 0]

RefreshErrors == {ERR_NO_KEY, ERR_NETWORK, ERR_NO_MODELS}

\* C10: a getFreeModels() call made with a cold mirror and a dir record that
\* is not valid in structure returns nothing of that record: it joins the
\* pending refresh or starts one and awaits it, and what it returns later is
\* that refresh's outcome, whose error, if any, is a refresh error.
C10_InvalidRecordIsAMiss ==
    [][\A p \in Procs :
          /\ (ReadsNow(p) /\ memoryCache = <<>> /\ ~StructurallyValid(cacheFile))
             => /\ proc'[p].pc = "await" /\ proc'[p].src = "refresh"
                /\ proc'[p].res = NoOutcome
                /\ memoryCache' = <<>>
                /\ IF refreshInFlight # 0
                   THEN proc'[p].waitOn = refreshInFlight /\ refreshes' = refreshes
                   ELSE /\ refreshes[proc'[p].waitOn].st = "unused"
                        /\ refreshes'[proc'[p].waitOn].st = "running"
          /\ (proc[p].pc = "await" /\ proc[p].op = "getFreeModels" /\ proc'[p].pc = "done")
             => /\ proc'[p].res = refreshes[proc[p].waitOn].outcome
                /\ proc'[p].res.kind = "error" => proc'[p].res.err \in RefreshErrors]_vars

\* A read that found a null entry in the dir record awaits a refresh.
C10_Witness ==
    \E p \in Reads :
        /\ proc[p].pc = "await"
        /\ memoryCache = <<>>
        /\ cacheFile = Record(FreshAtStart, <<NullValue, Str(MODEL_A)>>)
        /\ proc[p].src = "refresh" /\ proc[p].waitOn = refreshInFlight

====
